---------------------------- MODULE Spec2Model ----------------------------
(***************************************************************************)
(* State-machine model of the GitHub integration of SWE-agent:             *)
(*   sweagent/github/state.py  GitHubState          (the State Store)      *)
(*   sweagent/github/cost.py   GitHubCostOptimizer  (the Cost Governor)    *)
(*   sweagent/github/bot.py    GitHubWebhookHandler, GitHubBotRouter       *)
(*                                                                         *)
(* Time is an integer clock `now` counted in ticks; one hour is            *)
(* Hour ticks.          A Python float is a rational <<n, d>> in lowest    *)
(* terms (d > 0) or NaN; rounding of float arithmetic is not modelled.     *)
(* An SQL value that may be NULL is a set: {} is NULL, {v} is the value v. *)
(* An event identifier f"{type}-{number}" is the pair <<type, number>>.    *)
(***************************************************************************)
EXTENDS Integers, Sequences, FiniteSets, TLC

VARIABLES
    now,                    \* datetime.utcnow(), in ticks
    conn,                   \* GitHubState._conn and the database file behind it
    max_batch_size,         \* GitHubCostOptimizer.max_batch_size
    governor_target_hourly_cost,  \* GitHubCostOptimizer.target_hourly_cost
    lists,                  \* the heap of Python list objects the Governor allocates
    current_batch,          \* GitHubCostOptimizer._current_batch (a reference into lists)
    returned_batch,         \* the list the last get_batch returned, as its caller holds it
    processed_events,       \* GitHubCostOptimizer._processed_events
    rate_limit_tokens,      \* GitHubCostOptimizer._rate_limit_tokens
    rate_limit_last_reset,  \* GitHubCostOptimizer._rate_limit_last_reset
    agent_runs,             \* the calls of agent.run(), as the events they were made for
    current_event,          \* GitHubEventHook._current_event
    responses,              \* the requests delivered, each with the status code sent for it
    call,                   \* the last call made on the system and how it ended
    admitted,               \* history: the identities of the events add_to_batch appended
    accepted,               \* history: the events appended since the last get_batch
    cached,                 \* history: per event id, what cache_state last stored, and when
    router_event,           \* GitHubActionRouter.event: the payload loaded, NULL for None
    server,                 \* GitHubBotRouter.server and its thread: NULL, or the HTTPServer
    pc                      \* per thread of a concurrent run: the calls it has completed

storeVars == <<conn>>
govVars == <<max_batch_size, governor_target_hourly_cost, lists, current_batch, returned_batch, processed_events,
             rate_limit_tokens, rate_limit_last_reset, admitted, accepted, cached>>
webVars == <<agent_runs, current_event, responses, router_event, server>>
\* every variable; the call is listed field by field, the operation first, so that two
\* calls are compared by their results only when they are calls of one operation
vars == <<call.op, call.raised, call.args, call.ret, now, conn, max_batch_size, lists,
          current_batch, returned_batch, processed_events, rate_limit_tokens,
          rate_limit_last_reset, agent_runs, current_event, responses, admitted, accepted,
          cached, router_event, server, pc, governor_target_hourly_cost>>

---------------------------------------------------------------------------
(* Bounds of the model *)

\* the clock runs from 0 to MaxTime ticks of half an hour
MaxTime == 3
\* the largest max_batch_size a Governor is constructed with
MaxBatch == 2
\* the longest list of event ids handed to track_processing (besides DrainIds)
MaxIds == 2
\* rows the cost_tracking table may hold before the model stops adding to it
MaxJournal == 2
\* how far below zero the model follows the rate-limit token count
MaxDebt == 2
\* deliveries of one and the same request the model follows
MaxDeliveries == 2
\* events beyond the token budget that the model follows through the rate limiter
MaxOverrun == 1
\* the longest signature header, in tokens, handed to _verify_signature
MaxHeader == 4

---------------------------------------------------------------------------
(* Python floats and SQL NULL *)

NULL == {}
Some(v) == {v}
TheValue(o) == CHOOSE v \in o : TRUE

NaN == <<0, 0>>

Abs(n) == IF n < 0 THEN -n ELSE n

RECURSIVE GCD(_, _)
GCD(a, b) == IF b = 0 THEN a ELSE GCD(b, a % b)

\* the float n/d
Rat(n, d) ==
    LET g == GCD(Abs(n), d)
    IN  <<n \div g, d \div g>>

FloatOf(n) == Rat(n, 1)

FloatAdd(x, y) ==
    IF x = NaN \/ y = NaN THEN NaN
    ELSE Rat(x[1] * y[2] + y[1] * x[2], x[2] * y[2])

\* x / k for an integer k # 0
FloatDiv(x, k) ==
    IF x = NaN THEN NaN
    ELSE IF k > 0 THEN Rat(x[1], x[2] * k)
    ELSE Rat(-x[1], x[2] * (-k))

\* x <= y; every comparison with NaN is false
FloatLeq(x, y) ==
    /\ x # NaN
    /\ y # NaN
    /\ x[1] * y[2] <= y[1] * x[2]

\* sqlite3 binds a float parameter with sqlite3_bind_double, which stores NaN as NULL
BindFloat(x) == IF x = NaN THEN NULL ELSE Some(x)

---------------------------------------------------------------------------
(* The State Store: sweagent/github/state.py *)

\* timedelta(hours=1), in ticks
Hour == 2

\* the schema created by _init_db, with every table empty
\* the thread that constructs the Store, the Governor and the Router
MainThread == "main"
\* the other threads: workers that call the Store, request handlers that call the Governor
Workers == {"worker-1", "worker-2"}
Handlers == {"handler-1", "handler-2"}
Threads == {MainThread} \cup Workers \cup Handlers

EmptyDb == [events |-> {}, cost_tracking |-> <<>>, model_states |-> {}]

\* GitHubState.__init__: the connection is opened, the schema created and committed
InitConn ==
    [work |-> EmptyDb, disk |-> EmptyDb, in_transaction |-> FALSE, thread |-> MainThread,
     lock |-> {}]

\* GitHubState.target_hourly_cost, the default of __init__
target_hourly_cost == 10

\* the rows of the events table with primary key id
EventRows(db, id) == {r \in db.events : r.id = id}

\* the sqlite3 module opens a transaction before an INSERT, UPDATE or DELETE
BeginImplicit(c) == [c EXCEPT !.in_transaction = TRUE]

\* conn.commit()
Commit(c) == [c EXCEPT !.disk = c.work, !.in_transaction = FALSE]

\* INSERT OR REPLACE INTO events (id, type, action, created_at): the conflicting row is deleted first
InsertOrReplaceEvent(db, id, type, action, created_at) ==
    [db EXCEPT !.events = (db.events \ EventRows(db, id)) \cup
        {[id |-> id, type |-> type, action |-> action, created_at |-> created_at,
          processed_at |-> NULL, cost |-> NULL, tokens |-> NULL]}]

\* INSERT OR IGNORE INTO events (id, type, action, created_at) VALUES (?, ?, ?, ?)
InsertOrIgnoreEvent(db, id, type, action, created_at) ==
    IF EventRows(db, id) # {}
    THEN db
    ELSE [db EXCEPT !.events = db.events \cup
            {[id |-> id, type |-> type, action |-> action, created_at |-> created_at,
              processed_at |-> NULL, cost |-> NULL, tokens |-> NULL]}]

\* GitHubState.save_event; fault names the statement that fails, if any
save_event(c, id, type, action, created_at, fault) ==
    IF fault = "execute"
    THEN [conn |-> BeginImplicit(c), raised |-> TRUE]
    ELSE LET c1 == [BeginImplicit(c) EXCEPT
                       !.work = InsertOrIgnoreEvent(c.work, id, type, action, created_at)]
         IN  IF fault = "commit"
             THEN [conn |-> c1, raised |-> TRUE]
             ELSE [conn |-> Commit(c1), raised |-> FALSE]

\* UPDATE events SET processed_at = ?, cost = ?, tokens = ? WHERE id = ?
UpdateProcessed(db, id, at, cost, tokens) ==
    [db EXCEPT !.events =
        {IF r.id = id
         THEN [r EXCEPT !.processed_at = Some(at), !.cost = BindFloat(cost),
                        !.tokens = Some(tokens)]
         ELSE r : r \in db.events}]

\* the INSERT on a connection without PRAGMA foreign_keys = ON: only NOT NULL is checked
JournalInsertFailsNoForeignKey(db, id, cost) == BindFloat(cost) = NULL

\* INSERT INTO cost_tracking: cost is NOT NULL and event_id REFERENCES events(id)
JournalInsertFails(db, id, cost) ==
    \/ BindFloat(cost) = NULL
    \/ EventRows(db, id) = {}

\* INSERT INTO cost_tracking (event_id, timestamp, cost, tokens) VALUES (?, ?, ?, ?)
InsertJournal(db, id, at, cost, tokens) ==
    [db EXCEPT !.cost_tracking = Append(db.cost_tracking,
        [event_id |-> id, timestamp |-> at, cost |-> cost, tokens |-> tokens])]

\* GitHubState.mark_event_processed; fault names the statement that fails, if any
mark_event_processed(c, id, cost, tokens, at, fault) ==
    IF fault = "execute"
    THEN [conn |-> BeginImplicit(c), raised |-> TRUE]
    ELSE LET c1 == [BeginImplicit(c) EXCEPT
                       !.work = UpdateProcessed(c.work, id, at, cost, tokens)]
         IN  IF fault = "insert" \/ JournalInsertFails(c1.work, id, cost)
             THEN [conn |-> c1, raised |-> TRUE]
             ELSE LET c2 == [c1 EXCEPT
                                !.work = InsertJournal(c1.work, id, at, cost, tokens)]
                  IN  IF fault = "commit"
                      THEN [conn |-> c2, raised |-> TRUE]
                      ELSE [conn |-> Commit(c2), raised |-> FALSE]

\* SUM(cost) over a sequence of cost_tracking rows; NULL over no rows.
\* The rows are added up half by half, which keeps the recursion shallow.
RECURSIVE SumCost(_)
SumCost(rows) ==
    IF rows = <<>> THEN NULL
    ELSE IF Len(rows) = 1 THEN Some(rows[1].cost)
    ELSE LET half == Len(rows) \div 2
             left == SumCost(SubSeq(rows, 1, half))
             right == SumCost(SubSeq(rows, half + 1, Len(rows)))
         IN  Some(FloatAdd(TheValue(left), TheValue(right)))

\* the rows of WHERE timestamp > ?: an entry made exactly at the start of the window is left out
RowsSinceStrict(db, start_time) ==
    SelectSeq(db.cost_tracking, LAMBDA r : r.timestamp > start_time)

\* the rows of WHERE timestamp >= ?
RowsSince(db, start_time) ==
    SelectSeq(db.cost_tracking, LAMBDA r : r.timestamp >= start_time)

\* SELECT SUM(cost) / ?: NULL when the sum is NULL, and when dividing by zero
SumCostPerHour(db, hours, start_time) ==
    LET s == SumCost(RowsSince(db, start_time))
    IN  IF s = NULL \/ hours = 0 THEN NULL
        ELSE Some(FloatDiv(TheValue(s), hours))

\* GitHubState.get_hourly_cost: row[0] or 0.0
get_hourly_cost(c, hours, at) ==
    LET q == SumCostPerHour(c.work, hours, at - hours * Hour)
    IN  IF q = NULL THEN FloatOf(0) ELSE TheValue(q)

\* the budget check made against the target the Governor was constructed with
is_cost_efficient_of_governor(c, at) ==
    FloatLeq(get_hourly_cost(c, 1, at), FloatOf(governor_target_hourly_cost))

\* hourly_cost < self.target_hourly_cost: a cost equal to the target counts as over budget
is_cost_efficient_Below(c, at) ==
    /\ FloatLeq(get_hourly_cost(c, 1, at), FloatOf(target_hourly_cost))
    /\ get_hourly_cost(c, 1, at) # FloatOf(target_hourly_cost)

\* GitHubState.is_cost_efficient
is_cost_efficient(c, at) ==
    FloatLeq(get_hourly_cost(c, 1, at), FloatOf(target_hourly_cost))

\* SUM(cost) over a set of events rows: NULL values are skipped, NULL over none
RECURSIVE SumEventCost(_)
SumEventCost(rows) ==
    IF rows = {} THEN NULL
    ELSE LET r == CHOOSE x \in rows : TRUE
             rest == SumEventCost(rows \ {r})
         IN  IF r.cost = NULL THEN rest
             ELSE IF rest = NULL THEN r.cost
             ELSE Some(FloatAdd(TheValue(r.cost), TheValue(rest)))

\* SUM(tokens) over a set of events rows
RECURSIVE SumEventTokens(_)
SumEventTokens(rows) ==
    IF rows = {} THEN NULL
    ELSE LET r == CHOOSE x \in rows : TRUE
             rest == SumEventTokens(rows \ {r})
         IN  IF r.tokens = NULL THEN rest
             ELSE IF rest = NULL THEN r.tokens
             ELSE Some(TheValue(r.tokens) + TheValue(rest))

\* FROM events WHERE processed_at >= ? [AND type = ?]; a NULL processed_at compares as
\* not true; `if event_type:` leaves the filter out for None and for ""
StatsRows(db, event_type, start_time) ==
    {r \in db.events :
        /\ r.processed_at # NULL
        /\ TheValue(r.processed_at) >= start_time
        /\ (event_type = NULL \/ event_type = Some("") \/ Some(r.type) = event_type)}

\* GitHubState.get_event_stats: the rows of SELECT type, COUNT(*), SUM(cost),
\* SUM(tokens) ... GROUP BY type, as the set of the groups
get_event_stats(c, event_type, hours, at) ==
    LET rows == StatsRows(c.work, event_type, at - hours * Hour)
    IN  {[type |-> t,
          count |-> Cardinality({r \in rows : r.type = t}),
          total_cost |-> SumEventCost({r \in rows : r.type = t}),
          total_tokens |-> SumEventTokens({r \in rows : r.type = t})] :
            t \in {r.type : r \in rows}}

\* timedelta(days=1), in ticks
Day == 24 * Hour

\* a model state: a dict with the keys "key" and "_updated_at", either of which may be
\* absent; a value is a tagged pair <<"str", x>>, <<"list", x>> or <<"tuple", x>>
StateKeys == {"key", "_updated_at"}
Dict(key, updated_at) == [k \in StateKeys |-> IF k = "key" THEN key ELSE updated_at]
EmptyDict == Dict(NULL, NULL)

\* json.dumps of a value: a str becomes a JSON string, a list or a tuple a JSON array
json_dumps_value(v) ==
    IF v[1] = "str" THEN <<"string", v[2]>> ELSE <<"array", v[2]>>

\* json.loads of a JSON value: a string becomes a str, an array a list
json_loads_value(t) ==
    IF t[1] = "string" THEN <<"str", t[2]>> ELSE <<"list", t[2]>>

\* json.dumps(state): the text of the object, key by key
json_dumps(state) ==
    [k \in StateKeys |-> IF state[k] = NULL THEN NULL
                         ELSE Some(json_dumps_value(TheValue(state[k])))]

\* json.loads(row[0])
json_loads(text) ==
    [k \in StateKeys |-> IF text[k] = NULL THEN NULL
                         ELSE Some(json_loads_value(TheValue(text[k])))]

\* the rows of model_states with primary key event_id
StateRows(db, id) == {r \in db.model_states : r.event_id = id}

\* INSERT OR REPLACE INTO model_states: event_id REFERENCES events(id)
StateInsertFails(db, id) == EventRows(db, id) = {}

\* INSERT OR IGNORE INTO model_states: the first state saved for an id stays
InsertOrIgnoreState(db, id, text, at) ==
    IF StateRows(db, id) # {} THEN db
    ELSE [db EXCEPT !.model_states = db.model_states \cup
            {[event_id |-> id, state |-> text, updated_at |-> at]}]

\* INSERT OR REPLACE INTO model_states (event_id, state, updated_at) VALUES (?, ?, ?)
InsertOrReplaceState(db, id, text, at) ==
    [db EXCEPT !.model_states = (db.model_states \ StateRows(db, id)) \cup
        {[event_id |-> id, state |-> text, updated_at |-> at]}]

\* GitHubState.save_model_state; fault names the statement that fails, if any
save_model_state(c, id, state, at, fault) ==
    IF fault = "execute" \/ StateInsertFails(c.work, id)
    THEN [conn |-> BeginImplicit(c), raised |-> TRUE]
    ELSE LET c1 == [BeginImplicit(c) EXCEPT
                       !.work = InsertOrReplaceState(c.work, id, json_dumps(state), at)]
         IN  IF fault = "commit"
             THEN [conn |-> c1, raised |-> TRUE]
             ELSE [conn |-> Commit(c1), raised |-> FALSE]

\* GitHubState.get_model_state: None (NULL) when there is no row
get_model_state(c, id) ==
    IF StateRows(c.work, id) = {} THEN NULL
    ELSE Some(json_loads((CHOOSE r \in StateRows(c.work, id) : TRUE).state))

\* `except: raise` without conn.rollback(): what was deleted stays deleted, uncommitted
RollbackMissing(c) == c

\* conn.rollback()
Rollback(c) == [c EXCEPT !.work = c.disk, !.in_transaction = FALSE]

\* DELETE FROM cost_tracking WHERE timestamp < ?
DeleteOldJournal(db, cutoff) ==
    [db EXCEPT !.cost_tracking = SelectSeq(db.cost_tracking, LAMBDA r : ~(r.timestamp < cutoff))]

\* SELECT id FROM events WHERE created_at < ?
OldEventIds(db, cutoff) == {e.id : e \in {r \in db.events : r.created_at < cutoff}}

\* DELETE FROM model_states WHERE event_id IN (SELECT id FROM events WHERE created_at < ?)
DeleteOldStates(db, cutoff) ==
    [db EXCEPT !.model_states = {r \in db.model_states : r.event_id \notin OldEventIds(db, cutoff)}]

\* DELETE FROM events fails when a row of cost_tracking or model_states still
\* REFERENCES an event it is to delete
DeleteOldEventsFails(db, cutoff) ==
    \/ \E i \in 1..Len(db.cost_tracking) :
            db.cost_tracking[i].event_id \in OldEventIds(db, cutoff)
    \/ \E r \in db.model_states : r.event_id \in OldEventIds(db, cutoff)

\* DELETE FROM events WHERE created_at < ?
DeleteOldEvents(db, cutoff) ==
    [db EXCEPT !.events = {r \in db.events : ~(r.created_at < cutoff)}]

\* GitHubState.cleanup_old_events; fault names the statement that fails, if any.
\* conn.execute("BEGIN") raises, outside the try, on a connection with an open transaction
cleanup_old_events(c, days, at, fault) ==
    IF fault = "begin" \/ c.in_transaction
    THEN [conn |-> c, ret |-> NULL, raised |-> TRUE]
    ELSE LET cutoff == at - days * Day
             d1 == DeleteOldJournal(c.work, cutoff)
             d2 == DeleteOldStates(d1, cutoff)
             c2 == [c EXCEPT !.work = d2, !.in_transaction = TRUE]
         IN  IF fault = "delete" \/ DeleteOldEventsFails(d2, cutoff)
             THEN [conn |-> Rollback(c2), ret |-> NULL, raised |-> TRUE]
             ELSE LET c3 == [c2 EXCEPT !.work = DeleteOldEvents(d2, cutoff)]
                  IN  IF fault = "commit"
                      THEN [conn |-> Rollback(c3), ret |-> NULL, raised |-> TRUE]
                      ELSE [conn |-> Commit(c3),
                            ret |-> Some(Cardinality(OldEventIds(d2, cutoff))),
                            raised |-> FALSE]


---------------------------------------------------------------------------
(* The Cost Governor: sweagent/github/cost.py *)

\* the full token budget of the rate-limit window
rate_limit_budget == 100

\* GitHubCostOptimizer._rate_limit_window
rate_limit_window == Hour

\* GitHubCostOptimizer.__init__: the default of target_hourly_cost
default_target_hourly_cost == 10

\* no list: the value of returned_batch before the first get_batch
NoRef == 0

\* an event payload: a dict in which every key may be absent (NULL)
Subject(number) == [number |-> Some(number), title |-> Some("title")]
Event(name, action, issue, pull_request, discussion) ==
    [event_name |-> name, action |-> action, issue |-> issue,
     pull_request |-> pull_request, discussion |-> discussion]

\* event.get("event_name", "unknown")
EventType(event) ==
    IF event.event_name = NULL THEN "unknown" ELSE TheValue(event.event_name)

\* the subject object _get_event_id reads the number of: the first key present
SubjectOf(event) ==
    IF event.issue # NULL THEN event.issue
    ELSE IF event.pull_request # NULL THEN event.pull_request
    ELSE event.discussion

\* GitHubCostOptimizer._get_event_id: NULL stands for the KeyError of a subject
\* without a number; with no subject the identifier is built from hash(str(event))
get_event_id(event) ==
    IF SubjectOf(event) = NULL
    THEN Some(<<EventType(event), <<"hash", event>> >>)
    ELSE IF TheValue(SubjectOf(event)).number = NULL THEN NULL
    ELSE Some(<<EventType(event), TheValue(TheValue(SubjectOf(event)).number)>>)

\* now - last_reset > window: no reset at the very end of the window
WindowElapsedLater(at, last_reset) == at - last_reset > rate_limit_window

\* GitHubCostOptimizer._check_rate_limit: the window after the check, and its answer
WindowElapsed(at, last_reset) == at - last_reset >= rate_limit_window

\* a reset that refills the tokens and leaves _rate_limit_last_reset as it was
check_rate_limit_no_advance(tokens, last_reset, at) ==
    LET reset == WindowElapsed(at, last_reset)
        t == IF reset THEN rate_limit_budget ELSE tokens
    IN  [tokens |-> t, last_reset |-> last_reset, ret |-> t > 0]

check_rate_limit(tokens, last_reset, at) ==
    LET reset == WindowElapsed(at, last_reset)
        t == IF reset THEN rate_limit_budget ELSE tokens
    IN  [tokens |-> t,
         last_reset |-> IF reset THEN at ELSE last_reset,
         ret |-> t > 0]

\* a should_process_event without the dedup check
AlreadyProcessedNever(event_id, processed) == FALSE

\* the dedup check of should_process_event
AlreadyProcessed(event_id, processed) == event_id \in processed

\* len(self._current_batch) <= self.max_batch_size: a full batch takes one more
BatchHasRoomWhenFull(batch, max) == Len(batch) <= max

\* add_to_batch: whether the event is appended
BatchHasRoom(batch, max) == Len(batch) < max

\* add_to_batch: the value returned
add_to_batch_result(batch, max) == ~BatchHasRoom(batch, max)

\* -(-tokens // event_count): the share rounded up
tokens_per_event_up(tokens, event_count) == (tokens + event_count - 1) \div event_count

\* track_processing: tokens // event_count
tokens_per_event(tokens, event_count) == tokens \div event_count

\* track_processing: cost / event_count
cost_per_event(cost, event_count) == FloatDiv(cost, event_count)

\* the loop with each mark_event_processed in a try whose except passes: a failed
\* write is skipped and the loop goes on
RECURSIVE mark_each_ignoring_errors(_, _, _, _, _)
mark_each_ignoring_errors(c, ids, cost, tokens, at) ==
    IF ids = <<>>
    THEN [conn |-> c, raised |-> FALSE]
    ELSE mark_each_ignoring_errors(
            mark_event_processed(c, Head(ids), cost, tokens, at, "none").conn,
            Tail(ids), cost, tokens, at)

\* the loop of track_processing: one mark_event_processed per id, in the order of
\* the list, until one raises.  The list is walked first half, then second half,
\* which keeps the recursion shallow.
RECURSIVE mark_each(_, _, _, _, _)
mark_each(c, ids, cost, tokens, at) ==
    IF ids = <<>>
    THEN [conn |-> c, raised |-> FALSE]
    ELSE IF Len(ids) = 1
    THEN mark_event_processed(c, ids[1], cost, tokens, at, "none")
    ELSE LET half == Len(ids) \div 2
             first == mark_each(c, SubSeq(ids, 1, half), cost, tokens, at)
         IN  IF first.raised THEN first
             ELSE mark_each(first.conn, SubSeq(ids, half + 1, Len(ids)), cost, tokens, at)

\* GitHubCostOptimizer.cache_ttl: the default of 3600 seconds
cache_ttl == Hour

\* datetime.isoformat() of the time t, a str; datetime.fromisoformat() reads it back
isoformat(t) == <<"str", t>>
fromisoformat(v) == v[2]

\* state["_updated_at"] = datetime.utcnow().isoformat()
Stamped(state, at) == [state EXCEPT !["_updated_at"] = Some(isoformat(at))]

\* GitHubCostOptimizer.cache_state
cache_state(c, id, state, at, fault) == save_model_state(c, id, Stamped(state, at), at, fault)

\* `>=` for `>`: an entry is dropped at the very end of its time to live
TtlExpiredEarly(at, updated_at) == at - updated_at >= cache_ttl

\* datetime.utcnow() - updated_at > timedelta(seconds=self.cache_ttl)
TtlExpired(at, updated_at) == at - updated_at > cache_ttl

\* GitHubCostOptimizer.get_cached_state: `not state` holds for None and for the empty
\* dict; fromisoformat("") raises ValueError when the state has no "_updated_at"
get_cached_state(c, id, at) ==
    LET state == get_model_state(c, id)
    IN  IF state = NULL \/ TheValue(state) = EmptyDict
        THEN [ret |-> NULL, raised |-> FALSE]
        ELSE IF TheValue(state)["_updated_at"] = NULL
        THEN [ret |-> NULL, raised |-> TRUE]
        ELSE IF TtlExpired(at, fromisoformat(TheValue(TheValue(state)["_updated_at"])))
        THEN [ret |-> NULL, raised |-> FALSE]
        ELSE [ret |-> state, raised |-> FALSE]

\* GitHubCostOptimizer.get_stats: (hourly_cost, total_events, efficiency), where
\* efficiency is self.target_hourly_cost / hourly_cost, and 1.0 for no cost
get_stats(c, governor_target, at) ==
    LET hourly_cost == get_hourly_cost(c, 1, at)
    IN  [hourly_cost |-> hourly_cost,
         total_events |-> Cardinality(StatsRows(c.work, NULL, at - Hour)),
         efficiency |-> IF hourly_cost = NaN THEN NaN
                        ELSE IF hourly_cost[1] > 0
                        THEN Rat(governor_target * hourly_cost[2], hourly_cost[1])
                        ELSE FloatOf(1)]

---------------------------------------------------------------------------
(* The Webhook Receiver and the Event Router: sweagent/github/bot.py *)

\* GitHubBotRouter.SUPPORTED_EVENTS
SUPPORTED_EVENTS ==
    [issues |-> {"opened", "edited"},
     pull_request |-> {"opened", "synchronize"},
     discussion |-> {"created", "edited"}]

\* A header string is a sequence of tokens <<kind, key, message, part>>: the scheme
\* tag "sha256=", one half of a hex digest, other ASCII text, non-ASCII text.
SchemeTag == <<"sha256=", "", "", 0>>
HexPart(secret, bytes, part) == <<"hex", secret, bytes, part>>
AsciiText == <<"text", "", "", 0>>
NonAsciiText == <<"latin-1", "", "", 0>>

\* hmac.new(secret, payload, hashlib.sha256).hexdigest(): a string of two halves,
\* different for every other key and every other message
hexdigest(secret, bytes) == <<HexPart(secret, bytes, 1), HexPart(secret, bytes, 2)>>

\* signature.startswith("sha256=")
StartsWithTag(signature) == Len(signature) >= 1 /\ signature[1] = SchemeTag

\* signature.replace("sha256=", ""): every occurrence of the tag is removed
WithoutTag(signature) == SelectSeq(signature, LAMBDA t : t # SchemeTag)

\* GitHubWebhookHandler._verify_signature: TRUE, FALSE, or "TypeError" when
\* hmac.compare_digest is handed a str with non-ASCII characters
verify_signature(secret, bytes, signature) ==
    IF ~StartsWithTag(signature) THEN "False"
    ELSE IF \E i \in 1..Len(signature) : signature[i] = NonAsciiText THEN "TypeError"
    ELSE IF hexdigest(secret, bytes) = WithoutTag(signature) THEN "True"
    ELSE "False"

\* _validate_event with the action looked up before the event type
validate_event_message_action_first(event) ==
    IF event.action = NULL \/ \A t \in DOMAIN SUPPORTED_EVENTS :
                                    TheValue(event.action) \notin SUPPORTED_EVENTS[t]
    THEN "Unsupported action"
    ELSE IF event.event_name = NULL \/ TheValue(event.event_name) \notin DOMAIN SUPPORTED_EVENTS
    THEN "Unsupported event type"
    ELSE IF TheValue(event.action) \notin SUPPORTED_EVENTS[TheValue(event.event_name)]
    THEN "Unsupported action"
    ELSE "None"

\* GitHubBotRouter._validate_event: the message of the UnsupportedEventError it raises,
\* "None" when it returns
validate_event_message(event) ==
    IF event.event_name = NULL \/ TheValue(event.event_name) \notin DOMAIN SUPPORTED_EVENTS
    THEN "Unsupported event type"
    ELSE IF event.action = NULL
            \/ TheValue(event.action) \notin SUPPORTED_EVENTS[TheValue(event.event_name)]
    THEN "Unsupported action"
    ELSE "None"

\* GitHubBotRouter._validate_event: TRUE when it raises UnsupportedEventError
validate_event_raises(event) ==
    \/ event.event_name = NULL
    \/ TheValue(event.event_name) \notin DOMAIN SUPPORTED_EVENTS
    \/ event.action = NULL
    \/ TheValue(event.action) \notin SUPPORTED_EVENTS[TheValue(event.event_name)]

\* the key of the subject object the handler of an event type reads
HandlerSubject(event) ==
    CASE TheValue(event.event_name) = "issues" -> event.issue
      [] TheValue(event.event_name) = "pull_request" -> event.pull_request
      [] TheValue(event.event_name) = "discussion" -> event.discussion

\* _handle_issue, _handle_pull_request, _handle_discussion: TRUE when reading the
\* subject, its number or its title raises KeyError, before the agent is run
handler_key_error(event) ==
    \/ HandlerSubject(event) = NULL
    \/ TheValue(HandlerSubject(event)).number = NULL
    \/ TheValue(HandlerSubject(event)).title = NULL

\* GitHubBotRouter.handle_event: how it ends, and whether it got to agent.run()
handle_event(event, agent_raises) ==
    IF validate_event_raises(event)
    THEN [outcome |-> "UnsupportedEventError", hook |-> FALSE, run |-> FALSE]
    ELSE IF handler_key_error(event)
    THEN [outcome |-> "KeyError", hook |-> FALSE, run |-> FALSE]
    ELSE [outcome |-> IF agent_raises THEN "Exception" ELSE "None",
          hook |-> TRUE, run |-> TRUE]

\* event["event_name"] = event_type
WithEventName(event, event_type) == [event EXCEPT !.event_name = Some(event_type)]

\* do_POST with `except Exception` ahead of `except UnsupportedEventError`: an
\* unsupported event is answered 500
do_POST_try_broad(payload, event_type, agent_raises) ==
    IF payload.json = NULL \/ event_type = ""
    THEN [status |-> 400, hook |-> FALSE, run |-> FALSE]
    ELSE IF TheValue(payload.json).kind # "object"
    THEN [status |-> 500, hook |-> FALSE, run |-> FALSE]
    ELSE LET r == handle_event(WithEventName(TheValue(payload.json).value, event_type),
                               agent_raises)
         IN  [status |-> IF r.outcome = "None" THEN 200 ELSE 500,
              hook |-> r.hook, run |-> r.run]

\* the part of do_POST inside try: the status sent, what handle_event did
\* payload.json is NULL for bytes json.loads rejects, else the value parsed
do_POST_try(payload, event_type, agent_raises) ==
    IF payload.json = NULL \/ event_type = ""
    THEN [status |-> 400, hook |-> FALSE, run |-> FALSE]
    ELSE IF TheValue(payload.json).kind # "object"
    THEN [status |-> 500, hook |-> FALSE, run |-> FALSE]
    ELSE LET r == handle_event(WithEventName(TheValue(payload.json).value, event_type),
                               agent_raises)
         IN  [status |-> CASE r.outcome = "None" -> 200
                           [] r.outcome = "UnsupportedEventError" -> 422
                           [] OTHER -> 500,
              hook |-> r.hook, run |-> r.run]

\* the status of a request that is never answered: do_POST raised outside its try
NoResponse == 0

\* GitHubWebhookHandler.do_POST
do_POST(secret, request, agent_raises) ==
    IF ~request.content_length
    THEN [status |-> NoResponse, hook |-> FALSE, run |-> FALSE]
    ELSE LET v == verify_signature(secret, request.payload.bytes, request.signature)
         IN  IF v = "TypeError" THEN [status |-> NoResponse, hook |-> FALSE, run |-> FALSE]
             ELSE IF v = "False" THEN [status |-> 401, hook |-> FALSE, run |-> FALSE]
             ELSE do_POST_try(request.payload, request.event_type, agent_raises)

---------------------------------------------------------------------------
(* Inputs of the Store's operations *)

\* event identifiers: f"{event_type}-{number}"
I1 == <<"issues", 1>>
I2 == <<"pull_request", 2>>
EventIds == {I1, I2}

\* the (type, action) pairs save_event is called with
SaveInputs == {<<"issues", "opened">>, <<"pull_request", "edited">>}

\* the costs and token counts handed to mark_event_processed and track_processing
Costs == {FloatOf(5), FloatOf(6), NaN}
TokenCounts == {7}

\* storage failures: the statement of an operation that raises
SaveFaults == {"none", "commit"}
MarkFaults == {"none", "insert"}

\* the `hours` arguments of get_hourly_cost
HoursArgs == {0, 1, 2}

\* the ghost record of a call: the operation, its arguments, its result
Called(op, args, ret, raised) == [op |-> op, args |-> args, ret |-> ret, raised |-> raised]

---------------------------------------------------------------------------
(* The Store's operations as actions *)

\* time passes
Tick ==
    /\ now < MaxTime
    /\ now' = now + 1
    /\ call' = Called("tick", <<>>, NULL, FALSE)
    /\ UNCHANGED <<storeVars, govVars, webVars, pc>>

SaveEvent(id, in, fault) ==
    LET r == save_event(conn, id, in[1], in[2], now, fault)
    IN  /\ conn' = r.conn
        /\ call' = Called("save_event", <<id, in[1], in[2]>>, NULL, r.raised)
        /\ UNCHANGED <<now, govVars, webVars, pc>>

MarkEventProcessed(id, cost, tokens, fault) ==
    LET r == mark_event_processed(conn, id, cost, tokens, now, fault)
    IN  /\ Len(conn.work.cost_tracking) < MaxJournal
        /\ conn' = r.conn
        /\ call' = Called("mark_event_processed", <<id>>, NULL, r.raised)
        /\ UNCHANGED <<now, govVars, webVars, pc>>

GetHourlyCost(hours) ==
    /\ call' = Called("get_hourly_cost", <<hours>>, get_hourly_cost(conn, hours, now), FALSE)
    /\ UNCHANGED <<now, storeVars, govVars, webVars, pc>>

IsCostEfficient ==
    /\ call' = Called("is_cost_efficient", <<>>, is_cost_efficient(conn, now), FALSE)
    /\ UNCHANGED <<now, storeVars, govVars, webVars, pc>>

\* sqlite3.connect(db_path) checks the thread of every use of the connection against
\* the thread that created it (check_same_thread is left at its default)
check_same_thread(c, thread) == c.thread = thread

\* the worker of a concurrent run: for its event, save_event and then
\* mark_event_processed; an exception that is not caught ends the thread
WorkerProgram == <<"save_event", "mark_event_processed">>
WorkerEvent(w) == IF w = "worker-1" THEN I1 ELSE I2
WorkerDone(w) == pc[w] = Len(WorkerProgram)

\* the next call of worker w on the Store all threads share
WorkerStep(w) ==
    LET op == WorkerProgram[pc[w] + 1]
        id == WorkerEvent(w)
        r == IF ~check_same_thread(conn, w)
             THEN [conn |-> conn, raised |-> TRUE]
             ELSE IF op = "save_event"
             THEN save_event(conn, id, "issues", "opened", now, "none")
             ELSE mark_event_processed(conn, id, FloatOf(1), 100, now, "none")
    IN  /\ ~WorkerDone(w)
        /\ conn' = r.conn
        /\ pc' = [pc EXCEPT ![w] = IF r.raised THEN Len(WorkerProgram) ELSE pc[w] + 1]
        /\ call' = Called(op, <<id>>, NULL, r.raised)
        /\ UNCHANGED <<now, govVars, webVars>>

\* self._lock, a threading.Lock: c.lock is the set of threads inside `with self._lock`.
\* The operations of the Store a thread calls one after the other, whether a call
\* returned or raised:
LockProgram(t) ==
    CASE t = MainThread ->
            <<"save_event", "mark_event_processed", "is_cost_efficient", "cleanup_old_events">>
      [] t = "worker-1" -> <<"mark_event_processed", "get_hourly_cost">>
      [] t = "worker-2" -> <<"save_event">>
      [] t = "handler-1" -> <<"is_cost_efficient">>
      [] OTHER -> <<"get_model_state">>
LockDone(t) == pc[t] = Len(LockProgram(t))

\* is_cost_efficient written as `with self._lock: return self.get_hourly_cost() <= ...`
nested_acquire_in_is_cost_efficient(op) == op = "is_cost_efficient"

\* whether the body of an operation, inside `with self._lock`, calls an operation
\* that takes the lock: none does (is_cost_efficient takes no lock of its own, the
\* get_hourly_cost it calls takes it)
nested_acquire(op) == FALSE

\* the body of a Store operation run on thread t: every statement on the shared
\* connection raises on a thread other than the one that made it
locked_body(c, t, op, at) ==
    IF ~check_same_thread(c, t) THEN [conn |-> c, raised |-> TRUE]
    ELSE CASE op = "save_event" -> save_event(c, I1, "issues", "opened", at, "none")
           [] op = "mark_event_processed" ->
                mark_event_processed(c, I1, FloatOf(5), 7, at, "none")
           [] op = "cleanup_old_events" ->
                [conn |-> cleanup_old_events(c, 0, at, "none").conn,
                 raised |-> cleanup_old_events(c, 0, at, "none").raised]
           [] OTHER -> [conn |-> c, raised |-> FALSE]

\* `with self._lock:` is entered: lock.acquire() returns once no thread holds the lock
Acquire(t) ==
    /\ ~LockDone(t)
    /\ conn.lock = {}
    /\ conn' = [conn EXCEPT !.lock = @ \cup {t}]
    /\ call' = Called("acquire", <<t>>, NULL, FALSE)
    /\ UNCHANGED <<now, govVars, webVars, pc>>

\* the body runs and `with` is left, by a return or by an exception: the lock is
\* released.  A body that took the lock again would wait here for ever.
Run(t) ==
    LET op == LockProgram(t)[pc[t] + 1]
        r == locked_body(conn, t, op, now)
    IN  /\ ~LockDone(t)
        /\ t \in conn.lock
        /\ ~nested_acquire(op)
        /\ conn' = [r.conn EXCEPT !.lock = @ \ {t}]
        /\ pc' = [pc EXCEPT ![t] = pc[t] + 1]
        /\ call' = Called(op, <<t>>, NULL, r.raised)
        /\ UNCHANGED <<now, govVars, webVars>>

\* save_event with a creation time the caller supplies
SaveEventCreated(id, in, created_at) ==
    LET r == save_event(conn, id, in[1], in[2], created_at, "none")
    IN  /\ conn' = r.conn
        /\ call' = Called("save_event", <<id, in[1], in[2]>>, NULL, r.raised)
        /\ UNCHANGED <<now, govVars, webVars, pc>>

\* the model states handed to save_model_state
StoredStates == {Dict(Some(<<"str", "a">>), NULL), Dict(Some(<<"str", "b">>), NULL)}

\* the event_type arguments of get_event_stats: None, or a type
StatsTypes == {NULL, Some("issues"), Some("pull_request")}

GetEventStats(event_type, hours) ==
    /\ call' = Called("get_event_stats", <<event_type, hours>>,
                      get_event_stats(conn, event_type, hours, now), FALSE)
    /\ UNCHANGED <<now, storeVars, govVars, webVars, pc>>

\* model states whose value is a list, a tuple, or absent
ListState == Dict(Some(<<"list", "a">>), NULL)
TupleState == Dict(Some(<<"tuple", "a">>), NULL)
RoundTripStates == StoredStates \cup {ListState, TupleState, EmptyDict}

SaveModelState(id, state, fault) ==
    LET r == save_model_state(conn, id, state, now, fault)
    IN  /\ conn' = r.conn
        /\ call' = Called("save_model_state", <<id, state>>, NULL, r.raised)
        /\ UNCHANGED <<now, govVars, webVars, pc>>

GetModelState(id) ==
    /\ call' = Called("get_model_state", <<id>>, get_model_state(conn, id), FALSE)
    /\ UNCHANGED <<now, storeVars, govVars, webVars, pc>>

\* the `days` arguments of cleanup_old_events, and its storage failures
DaysArgs == {0, 1}
CleanupFaults == {"none", "begin", "delete", "commit"}

CleanupOldEvents(days, fault) ==
    LET r == cleanup_old_events(conn, days, now, fault)
    IN  /\ conn' = r.conn
        /\ call' = Called("cleanup_old_events", <<days, fault>>, r.ret, r.raised)
        /\ UNCHANGED <<now, govVars, webVars, pc>>

---------------------------------------------------------------------------
(* The Governor's operations as actions *)

E1 == Event(Some("issues"), Some("opened"), Some(Subject(1)), NULL, NULL)
E1e == Event(Some("issues"), Some("edited"), Some(Subject(1)), NULL, NULL)
E2 == Event(Some("pull_request"), Some("opened"), NULL, Some(Subject(2)), NULL)
GovEvents == {E1, E1e, E2}

\* the lists of event ids handed to track_processing
RECURSIVE SeqsUpTo(_, _)
SeqsUpTo(S, n) ==
    IF n = 0 THEN {<<>>}
    ELSE LET shorter == SeqsUpTo(S, n - 1)
         IN  shorter \cup {Append(q, x) : q \in shorter, x \in S}

\* a list long enough to use up the whole rate-limit budget in one call
DrainIds == [i \in 1..rate_limit_budget |-> I1]

\* one tracked cost of 10 puts the hourly cost at the target, a second one above it
GovCosts == {FloatOf(10)}

ShouldProcessEvent(event) ==
    LET id == get_event_id(event)
        rl == check_rate_limit(rate_limit_tokens, rate_limit_last_reset, now)
    IN  IF id = NULL
        THEN /\ call' = Called("should_process_event", <<event>>, NULL, TRUE)
             /\ UNCHANGED <<now, storeVars, govVars, webVars, pc>>
        ELSE IF AlreadyProcessed(TheValue(id), processed_events)
        THEN /\ call' = Called("should_process_event", <<event>>, FALSE, FALSE)
             /\ UNCHANGED <<now, storeVars, govVars, webVars, pc>>
        ELSE IF ~is_cost_efficient(conn, now)
        THEN /\ call' = Called("should_process_event", <<event>>, FALSE, FALSE)
             /\ UNCHANGED <<now, storeVars, govVars, webVars, pc>>
        ELSE /\ rate_limit_tokens' = rl.tokens
             /\ rate_limit_last_reset' = rl.last_reset
             /\ call' = Called("should_process_event", <<event>>, rl.ret, FALSE)
             /\ UNCHANGED <<now, storeVars, max_batch_size, governor_target_hourly_cost,
                            lists, current_batch,
                            returned_batch, processed_events, admitted, accepted, cached, webVars, pc>>

AddToBatch(event) ==
    LET id == get_event_id(event)
        batch == lists[current_batch]
    IN  IF id = NULL
        THEN /\ call' = Called("add_to_batch", <<event>>, NULL, TRUE)
             /\ UNCHANGED <<now, storeVars, govVars, webVars, pc>>
        ELSE /\ IF BatchHasRoom(batch, max_batch_size)
                THEN /\ lists' = [lists EXCEPT ![current_batch] = Append(batch, event)]
                     /\ processed_events' = processed_events \cup {TheValue(id)}
                ELSE UNCHANGED <<lists, processed_events>>
             /\ call' = Called("add_to_batch", <<event>>,
                               add_to_batch_result(batch, max_batch_size), FALSE)
             /\ admitted' = IF lists' # lists THEN admitted \cup {TheValue(id)} ELSE admitted
             /\ accepted' = IF lists' # lists THEN Append(accepted, event) ELSE accepted
             /\ UNCHANGED <<now, storeVars, max_batch_size, governor_target_hourly_cost,
                            current_batch, returned_batch,
                            rate_limit_tokens, rate_limit_last_reset, cached, webVars, pc>>

\* the reference of the list object `[]` allocates: one no live variable refers to
NewList(live) == CHOOSE ref \in DOMAIN lists : ref \notin live

\* get_batch without `self._current_batch = []`: the batch is handed out and kept
GetBatchKept ==
    /\ returned_batch' = current_batch
    /\ call' = Called("get_batch", <<>>, current_batch, FALSE)
    /\ accepted' = <<>>
    /\ UNCHANGED <<now, storeVars, max_batch_size, governor_target_hourly_cost,
                   lists, current_batch, processed_events,
                   rate_limit_tokens, rate_limit_last_reset, admitted, cached, webVars, pc>>

\* GitHubCostOptimizer.get_batch
GetBatch ==
    LET fresh == NewList({current_batch})
    IN  /\ returned_batch' = current_batch
        /\ current_batch' = fresh
        /\ lists' = [lists EXCEPT ![fresh] = <<>>]
        /\ call' = Called("get_batch", <<>>, current_batch, FALSE)
        /\ accepted' = <<>>
        /\ UNCHANGED <<now, storeVars, max_batch_size, governor_target_hourly_cost,
                       processed_events,
                       rate_limit_tokens, rate_limit_last_reset, admitted, cached, webVars, pc>>

\* GitHubCostOptimizer.should_process_event as a function of what it reads: the
\* answer, and the rate-limit state its check leaves
should_process_event(event, processed, c, tokens, last_reset, at) ==
    LET rl == check_rate_limit(tokens, last_reset, at)
    IN  IF AlreadyProcessed(TheValue(get_event_id(event)), processed) \/ ~is_cost_efficient(c, at)
        THEN [ret |-> FALSE, tokens |-> tokens, last_reset |-> last_reset]
        ELSE rl

\* should_process_event with the budget check ahead of the dedup check
should_process_event_store_first(thread, event, processed, c, tokens, last_reset, at) ==
    LET id == get_event_id(event)
        rl == check_rate_limit(tokens, last_reset, at)
        same == [ret |-> FALSE, raised |-> FALSE, tokens |-> tokens, last_reset |-> last_reset]
    IN  IF id = NULL \/ ~check_same_thread(c, thread)
        THEN [same EXCEPT !.ret = NULL, !.raised = TRUE]
        ELSE IF ~is_cost_efficient(c, at) THEN same
        ELSE IF AlreadyProcessed(TheValue(id), processed) THEN same
        ELSE [ret |-> rl.ret, raised |-> FALSE, tokens |-> rl.tokens,
              last_reset |-> rl.last_reset]

\* GitHubCostOptimizer.should_process_event called on a thread: its answer, whether
\* it raised, and the rate-limit state it leaves.  is_cost_efficient is the one
\* access to the Store, and sqlite3 raises ProgrammingError for it on every thread
\* but the one that made the connection.
should_process_event_on(thread, event, processed, c, tokens, last_reset, at) ==
    LET id == get_event_id(event)
        rl == check_rate_limit(tokens, last_reset, at)
        same == [ret |-> FALSE, raised |-> FALSE, tokens |-> tokens, last_reset |-> last_reset]
    IN  IF id = NULL THEN [same EXCEPT !.ret = NULL, !.raised = TRUE]
        ELSE IF AlreadyProcessed(TheValue(id), processed) THEN same
        ELSE IF ~check_same_thread(c, thread) THEN [same EXCEPT !.ret = NULL, !.raised = TRUE]
        ELSE IF ~is_cost_efficient(c, at) THEN same
        ELSE [ret |-> rl.ret, raised |-> FALSE, tokens |-> rl.tokens,
              last_reset |-> rl.last_reset]

\* should_process_event(event), called on the given thread
ShouldProcessEventOn(thread, event) ==
    LET r == should_process_event_on(thread, event, processed_events, conn,
                                     rate_limit_tokens, rate_limit_last_reset, now)
    IN  /\ rate_limit_tokens' = r.tokens
        /\ rate_limit_last_reset' = r.last_reset
        /\ call' = Called("should_process_event", <<event, thread>>, r.ret, r.raised)
        /\ UNCHANGED <<now, storeVars, max_batch_size, governor_target_hourly_cost,
                       lists, current_batch,
                       returned_batch, processed_events, admitted, accepted, cached,
                       webVars, pc>>

\* a request handler of the listener, on its own thread: it asks should_process_event
\* for its event and, on true, calls add_to_batch; the two handlers' events have one
\* identity
HandlerEvent(h) == IF h = "handler-1" THEN E1 ELSE E1e
HandlerProgram == <<"should_process_event", "add_to_batch">>
HandlerDone(h) == pc[h] = Len(HandlerProgram)

\* the next call of handler h on the Governor all handlers share
HandlerStep(h) ==
    LET op == HandlerProgram[pc[h] + 1]
        event == HandlerEvent(h)
        batch == lists[current_batch]
        r == should_process_event(event, processed_events, conn, rate_limit_tokens,
                                  rate_limit_last_reset, now)
    IN  /\ ~HandlerDone(h)
        /\ IF op = "should_process_event"
           THEN /\ rate_limit_tokens' = r.tokens
                /\ rate_limit_last_reset' = r.last_reset
                /\ pc' = [pc EXCEPT ![h] = IF r.ret THEN pc[h] + 1 ELSE Len(HandlerProgram)]
                /\ call' = Called(op, <<event>>, r.ret, FALSE)
                /\ UNCHANGED <<lists, processed_events, admitted, accepted>>
           ELSE /\ IF BatchHasRoom(batch, max_batch_size)
                   THEN /\ lists' = [lists EXCEPT ![current_batch] = Append(batch, event)]
                        /\ processed_events' =
                                processed_events \cup {TheValue(get_event_id(event))}
                        /\ admitted' = admitted \cup {TheValue(get_event_id(event))}
                        /\ accepted' = Append(accepted, event)
                   ELSE UNCHANGED <<lists, processed_events, admitted, accepted>>
                /\ pc' = [pc EXCEPT ![h] = pc[h] + 1]
                /\ call' = Called(op, <<event>>, add_to_batch_result(batch, max_batch_size),
                                  FALSE)
                /\ UNCHANGED <<rate_limit_tokens, rate_limit_last_reset>>
        /\ UNCHANGED <<now, storeVars, max_batch_size, governor_target_hourly_cost,
                       current_batch, returned_batch, cached,
                       webVars>>

\* a stream of events of distinct identities: issue n opened, for n = 1, 2, ...
StreamEvent(n) == Event(Some("issues"), Some("opened"), Some(Subject(n)), NULL, NULL)

\* the caller of the Governor, for the next event of the stream: it asks
\* should_process_event
CheckNext ==
    /\ Cardinality(admitted) < rate_limit_budget + MaxOverrun
    /\ ShouldProcessEvent(StreamEvent(Cardinality(admitted) + 1))

\* and, the answer being true, hands the event to add_to_batch
AddLetThrough ==
    /\ call.op = "should_process_event"
    /\ call.ret = TRUE
    /\ AddToBatch(call.args[1])

\* the targets a Governor is constructed with: one below the target of its Store,
\* and the default
GovernorTargets == {2, default_target_hourly_cost}

\* GitHubCostOptimizer(state, target_hourly_cost = target): the Governor of the
\* system is constructed with a target of its own, before any call is made on it
ConstructGovernor(target) ==
    /\ call.op = "init"
    /\ governor_target_hourly_cost' = target
    /\ call' = Called("GitHubCostOptimizer", <<target>>, NULL, FALSE)
    /\ UNCHANGED <<now, storeVars, max_batch_size, lists, current_batch, returned_batch,
                   processed_events, rate_limit_tokens, rate_limit_last_reset, admitted,
                   accepted, cached, webVars, pc>>

\* GitHubCostOptimizer.get_stats
GetStats ==
    /\ call' = Called("get_stats", <<>>,
                      get_stats(conn, governor_target_hourly_cost, now), FALSE)
    /\ UNCHANGED <<now, storeVars, govVars, webVars, pc>>

\* GitHubCostOptimizer.__init__ on the Store in use: another instance takes over, with
\* an empty batch, an empty set of processed identities and a full token budget
NewGovernor ==
    LET fresh == NewList({returned_batch})
    IN  /\ current_batch' = fresh
        /\ lists' = [lists EXCEPT ![fresh] = <<>>]
        /\ processed_events' = {}
        /\ rate_limit_tokens' = rate_limit_budget
        /\ rate_limit_last_reset' = now
        /\ admitted' = {}
        /\ accepted' = <<>>
        /\ call' = Called("init", <<>>, NULL, FALSE)
        /\ UNCHANGED <<now, storeVars, max_batch_size, governor_target_hourly_cost,
                       returned_batch, cached, webVars, pc>>

TrackProcessing(event_ids, cost, tokens) ==
    LET event_count == Len(event_ids)
    IN  /\ Len(conn.work.cost_tracking) < MaxJournal
        /\ rate_limit_tokens - event_count >= -MaxDebt
        /\ IF event_count = 0
           THEN /\ call' = Called("track_processing", <<event_ids, cost, tokens>>, NULL, TRUE)
                /\ UNCHANGED <<now, storeVars, govVars, webVars, pc>>
           ELSE LET r == mark_each(conn, event_ids, cost_per_event(cost, event_count),
                                   tokens_per_event(tokens, event_count), now)
                IN  /\ conn' = r.conn
                    /\ rate_limit_tokens' =
                            IF r.raised THEN rate_limit_tokens
                            ELSE rate_limit_tokens - event_count
                    /\ call' = Called("track_processing", <<event_ids, cost, tokens>>,
                                      NULL, r.raised)
                    /\ UNCHANGED <<now, max_batch_size, governor_target_hourly_cost,
                                   lists, current_batch,
                                   returned_batch, processed_events,
                                   rate_limit_last_reset, admitted, accepted, cached,
                                   webVars, pc>>

\* the states handed to cache_state: two contents, the empty dict, and a state that
\* carries an "_updated_at" of its own
CacheStates ==
    {Dict(Some(<<"str", "a">>), NULL), Dict(Some(<<"str", "b">>), NULL), EmptyDict,
     Dict(Some(<<"str", "a">>), Some(isoformat(-Day)))}

CacheState(id, state) ==
    LET r == cache_state(conn, id, state, now, "none")
    IN  /\ conn' = r.conn
        /\ cached' = IF r.raised THEN cached
                     ELSE [cached EXCEPT ![id] = Some([state |-> state, at |-> now])]
        /\ call' = Called("cache_state", <<id, state>>, NULL, r.raised)
        /\ UNCHANGED <<now, max_batch_size, governor_target_hourly_cost,
                       lists, current_batch, returned_batch,
                       processed_events, rate_limit_tokens, rate_limit_last_reset,
                       admitted, accepted, webVars, pc>>

GetCachedState(id) ==
    LET r == get_cached_state(conn, id, now)
    IN  /\ call' = Called("get_cached_state", <<id>>, r.ret, r.raised)
        /\ UNCHANGED <<now, storeVars, govVars, webVars, pc>>

---------------------------------------------------------------------------
(* The Webhook Receiver's requests *)

\* GitHubBotRouter.webhook_secret, and the key of a sender who does not know it
WebhookSecret == "secret"
OtherSecret == "guess"

\* request bodies: the bytes, and what json.loads makes of them
JsonObject(event) == Some([kind |-> "object", value |-> event])
Payload(bytes, json) == [bytes |-> bytes, json |-> json]

IssueOpened ==
    Payload("issue-opened",
            JsonObject(Event(NULL, Some("opened"), Some(Subject(1)), NULL, NULL)))
PullRequestOpened ==
    Payload("pr-opened",
            JsonObject(Event(NULL, Some("opened"), NULL, Some(Subject(2)), NULL)))
IssueClosed ==
    Payload("issue-closed",
            JsonObject(Event(NULL, Some("closed"), Some(Subject(1)), NULL, NULL)))
IssueWithoutSubject ==
    Payload("issue-bare", JsonObject(Event(NULL, Some("opened"), NULL, NULL, NULL)))
JsonArray == Payload("array", Some([kind |-> "array", value |-> <<>>]))
Malformed == Payload("malformed", NULL)

Signed(secret, payload) == <<SchemeTag>> \o hexdigest(secret, payload.bytes)

Request(payload, signature, event_type) ==
    [content_length |-> TRUE, payload |-> payload, signature |-> signature,
     event_type |-> event_type]

GoodRequests ==
    {Request(IssueOpened, Signed(WebhookSecret, IssueOpened), "issues"),
     Request(PullRequestOpened, Signed(WebhookSecret, PullRequestOpened), "pull_request")}

Requests ==
    GoodRequests \cup
    {Request(IssueOpened, Signed(OtherSecret, IssueOpened), "issues"),
     Request(IssueOpened, Signed(WebhookSecret, PullRequestOpened), "issues"),
     Request(IssueOpened, hexdigest(WebhookSecret, IssueOpened), "issues"),
     Request(IssueOpened, <<>>, "issues"),
     Request(IssueOpened, <<AsciiText>>, "issues"),
     Request(IssueOpened, <<SchemeTag, NonAsciiText>>, "issues"),
     Request(IssueOpened, <<SchemeTag>> \o Signed(WebhookSecret, IssueOpened), "issues"),
     [Request(IssueOpened, Signed(WebhookSecret, IssueOpened), "issues")
        EXCEPT !.content_length = FALSE],
     Request(IssueOpened, Signed(WebhookSecret, IssueOpened), ""),
     Request(IssueOpened, Signed(WebhookSecret, IssueOpened), "push"),
     Request(IssueOpened, Signed(WebhookSecret, IssueOpened), "pull_request"),
     Request(IssueClosed, Signed(WebhookSecret, IssueClosed), "issues"),
     Request(IssueWithoutSubject, Signed(WebhookSecret, IssueWithoutSubject), "issues"),
     Request(JsonArray, Signed(WebhookSecret, JsonArray), "issues"),
     Request(Malformed, Signed(WebhookSecret, Malformed), "issues"),
     Request(Malformed, Signed(OtherSecret, Malformed), "issues")}

\* the tokens signature headers are made of: the scheme tag, the halves of the digest
\* of the body under the secret, of the body under another key and of another body
\* under the secret, and other text
HeaderTokens ==
    {SchemeTag, AsciiText, NonAsciiText}
        \cup {HexPart(WebhookSecret, IssueOpened.bytes, part) : part \in 1..2}
        \cup {HexPart(OtherSecret, IssueOpened.bytes, 1),
              HexPart(WebhookSecret, PullRequestOpened.bytes, 2)}
Headers == SeqsUpTo(HeaderTokens, MaxHeader)

\* handler._verify_signature(payload, signature), called on its own
VerifySignature(payload, signature) ==
    /\ call' = Called("verify_signature", <<payload.bytes, signature>>,
                      verify_signature(WebhookSecret, payload.bytes, signature),
                      verify_signature(WebhookSecret, payload.bytes, signature) = "TypeError")
    /\ UNCHANGED <<now, storeVars, govVars, webVars, pc>>

\* one request is received and handled to its end; the agent's run may raise
DoPOST(request, agent_raises) ==
    LET r == do_POST(WebhookSecret, request, agent_raises)
        event == WithEventName(TheValue(request.payload.json).value, request.event_type)
    IN  /\ Len(responses) < MaxDeliveries
        /\ responses' = Append(responses, [request |-> request, status |-> r.status])
        /\ current_event' = IF r.hook THEN Some(event) ELSE current_event
        /\ agent_runs' = IF r.run THEN Append(agent_runs, event) ELSE agent_runs
        /\ call' = Called("do_POST", <<request, agent_raises>>, r.status, r.status = NoResponse)
        /\ UNCHANGED <<now, storeVars, govVars, router_event, server, pc>>

---------------------------------------------------------------------------
(* The Router's operations as actions *)

\* the event types and actions of the payloads handed to the Router; NULL: key absent
RouterTypes == {NULL, Some("issues"), Some("pull_request"), Some("discussion"), Some("push")}
RouterActions ==
    {NULL, Some("opened"), Some("edited"), Some("synchronize"), Some("created"),
     Some("closed")}

\* a payload of a type and an action, with the subject GitHub sends for the type
RouterEvent(type, action) ==
    Event(type, action,
          IF type = Some("issues") THEN Some(Subject(1)) ELSE NULL,
          IF type = Some("pull_request") THEN Some(Subject(2)) ELSE NULL,
          IF type = Some("discussion") THEN Some(Subject(3)) ELSE NULL)

\* payloads of a supported type and action that lack the subject, or its title
IssueNoSubject == Event(Some("issues"), Some("opened"), NULL, NULL, NULL)
IssueNoTitle ==
    Event(Some("issues"), Some("opened"), Some([number |-> Some(1), title |-> NULL]),
          NULL, NULL)
PullRequestWithIssue == Event(Some("pull_request"), Some("opened"), Some(Subject(1)), NULL, NULL)

RouterEvents ==
    {RouterEvent(type, action) : type \in RouterTypes, action \in RouterActions}
        \cup {IssueNoSubject, IssueNoTitle, PullRequestWithIssue}

\* router._validate_event(event), called on its own
ValidateEvent(event) ==
    /\ call' = Called("validate_event", <<event>>, validate_event_message(event),
                      validate_event_raises(event))
    /\ UNCHANGED <<now, storeVars, govVars, webVars, pc>>

\* router.handle_event(event); the agent's run may raise
HandleEvent(event, agent_raises) ==
    LET r == handle_event(event, agent_raises)
    IN  /\ Len(agent_runs) < MaxDeliveries
        /\ current_event' = IF r.hook THEN Some(event) ELSE current_event
        /\ agent_runs' = IF r.run THEN Append(agent_runs, event) ELSE agent_runs
        /\ call' = Called("handle_event", <<event, agent_raises>>, r.outcome,
                          r.outcome # "None")
        /\ UNCHANGED <<now, storeVars, govVars, responses, router_event, server, pc>>

---------------------------------------------------------------------------
(* The webhook listener's lifecycle: GitHubBotRouter.start and stop *)

\* HTTPServer(("", port), handler) once its thread runs serve_forever: the socket is
\* bound and listening, requests are accepted
RunningServer == [socket |-> "listening", serving |-> TRUE]

\* server.shutdown(): serve_forever is told to return, and has returned
shutdown(s) == [s EXCEPT !.serving = FALSE]

\* server.server_close(): the listening socket is closed
server_close(s) == [s EXCEPT !.socket = "closed"]

\* GitHubBotRouter.start: the server afterwards and the exception raised; binding the
\* port raises OSError when another process holds it
start(srv, port_free) ==
    IF srv # NULL THEN [server |-> srv, raised |-> "RuntimeError"]
    ELSE IF ~port_free THEN [server |-> NULL, raised |-> "OSError"]
    ELSE [server |-> Some(RunningServer), raised |-> "None"]

\* stop with server_close() ahead of shutdown(): the socket is closed under serve_forever
stop_close_first(srv) ==
    IF srv = NULL THEN [server |-> NULL, steps |-> <<>>]
    ELSE [server |-> NULL,
          steps |-> <<server_close(TheValue(srv)), shutdown(server_close(TheValue(srv)))>>]

\* GitHubBotRouter.stop: the server afterwards, and the states the HTTPServer object
\* went through, statement by statement
stop(srv) ==
    IF srv = NULL THEN [server |-> NULL, steps |-> <<>>]
    ELSE [server |-> NULL,
          steps |-> <<shutdown(TheValue(srv)), server_close(shutdown(TheValue(srv)))>>]

Start(port_free) ==
    LET r == start(server, port_free)
    IN  /\ server' = r.server
        /\ call' = Called("start", <<port_free>>, r.raised, r.raised # "None")
        /\ UNCHANGED <<now, storeVars, govVars, agent_runs, current_event, responses,
                       router_event, pc>>

Stop ==
    LET r == stop(server)
    IN  /\ server' = r.server
        /\ call' = Called("stop", <<>>, r.steps, FALSE)
        /\ UNCHANGED <<now, storeVars, govVars, agent_runs, current_event, responses,
                       router_event, pc>>

\* a request reaches do_POST through the HTTPServer, while it serves
Deliver(request, agent_raises) ==
    /\ server # NULL
    /\ DoPOST(request, agent_raises)

---------------------------------------------------------------------------
(* The Action Invoker: GitHubActionRouter on the event file of one workflow run *)

\* what is at event_path: NULL for no file, else the text of the file
NoFile == NULL
EventFile(payload) == Some(payload)

\* GitHubActionRouter._load_event: the exception it raises, "None" when it returns
load_event_raises(file) ==
    IF file = NoFile THEN "FileNotFoundError"
    ELSE IF TheValue(file).json = NULL THEN "JSONDecodeError"
    ELSE "None"

\* GitHubActionRouter._load_event: what json.load(f) returns
load_event(file) == TheValue(TheValue(file).json)

\* GitHubActionRouter.handle_event: how it ends, the event it loaded, and whether it
\* got to agent.run(); a payload that is not an object has no .get (AttributeError)
action_handle_event(file, agent_raises) ==
    IF load_event_raises(file) # "None"
    THEN [outcome |-> load_event_raises(file), event |-> NULL, hook |-> FALSE, run |-> FALSE]
    ELSE IF load_event(file).kind # "object"
    THEN [outcome |-> "AttributeError", event |-> Some(load_event(file).value),
          hook |-> FALSE, run |-> FALSE]
    ELSE LET r == handle_event(load_event(file).value, agent_raises)
         IN  [outcome |-> r.outcome, event |-> Some(load_event(file).value),
              hook |-> r.hook, run |-> r.run]

\* the event files of the workflow runs
EventFiles ==
    {NoFile, EventFile(Malformed), EventFile(JsonArray)}
        \cup {EventFile(Payload("event", JsonObject(event))) : event \in RouterEvents}

\* router._load_event(), called on its own
LoadEvent(file) ==
    /\ call' = Called("load_event", <<file>>, load_event_raises(file),
                      load_event_raises(file) # "None")
    /\ UNCHANGED <<now, storeVars, govVars, webVars, pc>>

\* router.handle_event() with the file at event_path; the agent's run may raise
ActionHandleEvent(file, agent_raises) ==
    LET r == action_handle_event(file, agent_raises)
    IN  /\ Len(agent_runs) < MaxDeliveries
        /\ router_event' = IF r.event = NULL THEN router_event ELSE r.event
        /\ current_event' = IF r.hook THEN r.event ELSE current_event
        /\ agent_runs' = IF r.run THEN Append(agent_runs, TheValue(r.event)) ELSE agent_runs
        /\ call' = Called("action_handle_event", <<file, agent_raises>>, r.outcome,
                          r.outcome # "None")
        /\ UNCHANGED <<now, storeVars, govVars, responses, server, pc>>

---------------------------------------------------------------------------
(* Initial state: a Store on a new database file, a Governor, a Router *)

Init ==
    /\ now = 0
    /\ conn = InitConn
    /\ max_batch_size \in 1..MaxBatch
    /\ governor_target_hourly_cost = default_target_hourly_cost
    /\ lists = [ref \in 1..2 |-> <<>>]
    /\ current_batch = 1
    /\ returned_batch = NoRef
    /\ processed_events = {}
    /\ rate_limit_tokens = rate_limit_budget
    /\ rate_limit_last_reset = 0
    /\ agent_runs = <<>>
    /\ current_event = NULL
    /\ responses = <<>>
    /\ call = Called("init", <<>>, NULL, FALSE)
    /\ admitted = {}
    /\ accepted = <<>>
    /\ cached = [id \in EventIds |-> NULL]
    /\ router_event = NULL
    /\ server = NULL
    /\ pc = [t \in Threads |-> 0]

\* the Store alone, on the Governor and Router of one construction
InitStore ==
    /\ Init
    /\ max_batch_size = 1

NextStore ==
    \/ Tick
    \/ \E id \in {I1}, in \in SaveInputs, fault \in SaveFaults :
            SaveEvent(id, in, fault)
    \/ \E id \in EventIds, cost \in Costs, tokens \in TokenCounts, fault \in MarkFaults :
            MarkEventProcessed(id, cost, tokens, fault)
    \/ \E hours \in HoursArgs : GetHourlyCost(hours)
    \/ IsCostEfficient

SpecStore == InitStore /\ [][NextStore]_vars

\* two request handlers run at once on one Governor, whose batch takes two events at
\* least; the main thread saves and tracks an event and takes the batch
InitHandlers ==
    /\ Init
    /\ max_batch_size >= 2

NextHandlers ==
    \/ Tick
    \/ \E h \in Handlers : HandlerStep(h)
    \/ SaveEvent(I1, <<"issues", "opened">>, "none")
    \/ \E cost \in GovCosts, tokens \in TokenCounts : TrackProcessing(<<I1>>, cost, tokens)
    \/ GetBatch

SpecHandlers == InitHandlers /\ [][NextHandlers]_vars

\* worker threads use the Store the main thread constructed, and so does the main thread
NextThreads ==
    \/ Tick
    \/ \E w \in Workers : WorkerStep(w)
    \/ \E in \in SaveInputs : SaveEvent(I1, in, "none")
    \/ MarkEventProcessed(I1, FloatOf(5), 7, "none")
    \/ \E hours \in HoursArgs : GetHourlyCost(hours)

SpecThreads == InitStore /\ [][NextThreads]_vars

\* statistics: events are saved with a creation time of now or of two days ago,
\* marked processed, and counted
\* the recent event costs 5.0 and the other one 3.0
Ages == {0, 2 * Day}

NextStats ==
    \/ Tick
    \/ \E age \in Ages : SaveEventCreated(I1, <<"issues", "opened">>, now - age)
    \/ \E in \in SaveInputs, age \in Ages : SaveEventCreated(I2, in, now - age)
    \/ \E tokens \in TokenCounts : MarkEventProcessed(I1, FloatOf(5), tokens, "none")
    \/ \E tokens \in TokenCounts : MarkEventProcessed(I2, FloatOf(3), tokens, "none")
    \/ \E event_type \in StatsTypes, hours \in HoursArgs : GetEventStats(event_type, hours)

SpecStats == InitStore /\ [][NextStats]_vars

\* the model states of events are saved and read back
NextModelState ==
    \/ Tick
    \/ SaveEvent(I1, <<"issues", "opened">>, "none")
    \/ \E id \in EventIds, state \in RoundTripStates : SaveModelState(id, state, "none")
    \/ \E id \in EventIds : GetModelState(id)

SpecModelState == InitStore /\ [][NextModelState]_vars

\* retention: events of several ages, processed and cached, are cleaned up.
\* An event is created two days before the start, or one tick after it.
CreatedAts == {-2 * Day, 1}

NextClean ==
    \/ Tick
    \/ \E id \in EventIds, created_at \in CreatedAts :
            SaveEventCreated(id, <<id[1], "opened">>, created_at)
    \/ \E id \in EventIds, tokens \in TokenCounts :
            MarkEventProcessed(id, FloatOf(5), tokens, "none")
    \/ \E tokens \in TokenCounts : MarkEventProcessed(I1, NaN, tokens, "none")
    \/ SaveModelState(I1, Dict(Some(<<"str", "a">>), NULL), "none")
    \/ \E days \in DaysArgs, fault \in CleanupFaults : CleanupOldEvents(days, fault)

SpecClean == InitStore /\ [][NextClean]_vars

\* batching and deduplication, on a Store that holds nothing
NextBatch ==
    \/ \E event \in GovEvents : ShouldProcessEvent(event)
    \/ \E event \in GovEvents : AddToBatch(event)
    \/ GetBatch

SpecBatch == Init /\ [][NextBatch]_vars

\* cost attribution: track_processing on the Store
InitTrack ==
    /\ Init
    /\ max_batch_size = 1

NextTrack ==
    \/ \E id \in EventIds : SaveEvent(id, <<id[1], "opened">>, "none")
    \/ \E event_ids \in SeqsUpTo(EventIds, MaxIds), cost \in Costs, tokens \in TokenCounts :
            /\ Len(conn.work.cost_tracking) + Len(event_ids) <= MaxJournal
            /\ TrackProcessing(event_ids, cost, tokens)

SpecTrack == InitTrack /\ [][NextTrack]_vars

\* the Governor on its Store: events are saved, checked, batched and tracked
InitGov ==
    /\ Init
    /\ max_batch_size = 1

NextGov ==
    \/ Tick
    \/ SaveEvent(I1, <<"issues", "opened">>, "none")
    \/ \E event \in GovEvents : ShouldProcessEvent(event)
    \/ \E event \in GovEvents : AddToBatch(event)
    \/ GetBatch
    \/ \E cost \in GovCosts, tokens \in TokenCounts :
            TrackProcessing(<<I1>>, cost, tokens)
    \/ IsCostEfficient

SpecGov == InitGov /\ [][NextGov]_vars

\* rate limiting: the token budget is used up and the window runs out
NextRate ==
    \/ Tick
    \/ SaveEvent(I1, <<"issues", "opened">>, "none")
    \/ \E event \in {E1, E2} : ShouldProcessEvent(event)
    \/ AddToBatch(E1)
    \/ \E event_ids \in {<<I1>>, DrainIds}, tokens \in TokenCounts :
            TrackProcessing(event_ids, FloatOf(5), tokens)

SpecRate == InitGov /\ [][NextRate]_vars

\* several instances, one after the other, on one Store
NextFleet ==
    \/ Tick
    \/ SaveEvent(I1, <<"issues", "opened">>, "none")
    \/ \E event \in {E1, E2} : ShouldProcessEvent(event)
    \/ AddToBatch(E1)
    \/ GetBatch
    \/ \E tokens \in TokenCounts : TrackProcessing(<<I1>>, FloatOf(5), tokens)
    \/ NewGovernor

SpecFleet == InitGov /\ [][NextFleet]_vars

\* The event issues-1 is saved first, or not at all.
SaveFirst ==
    /\ call.op = "init"
    /\ SaveEvent(I1, <<"issues", "opened">>, "none")

\* every operation of the Governor, on a Store that may hold the event issues-1
NextFrame ==
    \/ Tick
    \/ SaveFirst
    \/ \E event \in {E1, E2} : ShouldProcessEvent(event)
    \/ AddToBatch(E1)
    \/ GetBatch
    \/ \E event_ids \in {<<I1, I1>>, <<I1, I2>>}, tokens \in TokenCounts :
            TrackProcessing(event_ids, FloatOf(4), tokens)
    \/ CacheState(I1, Dict(Some(<<"str", "a">>), NULL))
    \/ GetCachedState(I1)

SpecFrame == InitGov /\ [][NextFrame]_vars

\* a stream of distinct events passes the rate limiter, is batched, and is tracked
NextCap ==
    \/ Tick
    \/ SaveFirst
    \/ CheckNext
    \/ AddLetThrough
    \/ GetBatch
    \/ \E tokens \in TokenCounts : TrackProcessing(DrainIds, FloatOf(5), tokens)

SpecCap == InitGov /\ [][NextCap]_vars

\* the cache of model states: the event issues-1 is saved, states are cached and read
NextCache ==
    \/ Tick
    \/ SaveEvent(I1, <<"issues", "opened">>, "none")
    \/ \E id \in EventIds, state \in CacheStates : CacheState(id, state)
    \/ \E id \in EventIds : GetCachedState(id)

SpecCache == InitGov /\ [][NextCache]_vars

\* the Router alone: events are validated and handled one after the other
NextRouter ==
    \/ \E event \in RouterEvents : ValidateEvent(event)
    \/ \E event \in RouterEvents, agent_raises \in BOOLEAN : HandleEvent(event, agent_raises)

SpecRouter == InitGov /\ [][NextRouter]_vars

\* the Action Invoker: one workflow run after the other, each with its event file
NextAction ==
    \/ \E file \in EventFiles : LoadEvent(file)
    \/ \E file \in EventFiles, agent_raises \in BOOLEAN : ActionHandleEvent(file, agent_raises)

SpecAction == InitGov /\ [][NextAction]_vars

\* the listener is started and stopped; requests are handled while it accepts them
NextServer ==
    \/ \E port_free \in BOOLEAN : Start(port_free)
    \/ Stop
    \/ \E request \in GoodRequests, agent_raises \in BOOLEAN : Deliver(request, agent_raises)

SpecServer == InitGov /\ [][NextServer]_vars

\* a handler is made for one request and verifies the header of that request
\* against its body
VerifyHeader(signature) ==
    /\ call.op = "init"
    /\ VerifySignature(IssueOpened, signature)

\* headers of every shape are verified
NextSign == \E signature \in Headers : VerifyHeader(signature)

SpecSign == InitGov /\ [][NextSign]_vars

\* the dedup check: should_process_event is called on the thread of the Store and on
\* a request handler's thread, for an event that was batched and for one that was not
NextDedup ==
    \/ Tick
    \/ SaveFirst
    \/ \E thread \in {MainThread, "handler-1"}, event \in {E1, E2} :
            ShouldProcessEventOn(thread, event)
    \/ AddToBatch(E1)
    \/ GetBatch
    \/ \E tokens \in TokenCounts : TrackProcessing(<<I1>>, FloatOf(10), tokens)

SpecDedup == InitGov /\ [][NextDedup]_vars

\* five threads call the Store at once; the scheduler lets every thread that can
\* take a step take one
NextLock ==
    \/ \E t \in Threads : Acquire(t)
    \/ \E t \in Threads : Run(t)

SpecLock == InitStore /\ [][NextLock]_vars

SpecLockFair == SpecLock /\ \A t \in Threads : WF_vars(Acquire(t) \/ Run(t))

\* the blobs the Store can hold for an id: states written by cache_state, and
\* states written with save_model_state directly
NextBlob ==
    \/ Tick
    \/ SaveEvent(I1, <<"issues", "opened">>, "none")
    \/ \E state \in StoredStates \cup {EmptyDict} : SaveModelState(I1, state, "none")
    \/ \E state \in CacheStates : CacheState(I1, state)
    \/ \E id \in EventIds : GetCachedState(id)

SpecBlob == InitGov /\ [][NextBlob]_vars

\* a Governor with a target of its own on a Store with the default target: costs are
\* recorded, events are checked and batched, the statistics are read
NextTargets ==
    \/ \E target \in GovernorTargets : ConstructGovernor(target)
    \/ Tick
    \/ SaveEvent(I1, <<"issues", "opened">>, "none")
    \/ \E tokens \in TokenCounts : MarkEventProcessed(I1, FloatOf(5), tokens, "none")
    \/ \E event \in {E1, E2} : ShouldProcessEvent(event)
    \/ AddToBatch(E1)
    \/ GetStats

SpecTargets == InitGov /\ [][NextTargets]_vars

\* the webhook listener: requests arrive one after the other
NextWeb ==
    \E request \in Requests, agent_raises \in BOOLEAN : DoPOST(request, agent_raises)

SpecWeb == InitGov /\ [][NextWeb]_vars

---------------------------------------------------------------------------
(* What the claims speak of, stated without the operators of the code *)

\* the sum of the costs of rows[1..i] whose timestamp is at or after start_time
RECURSIVE WindowTotal(_, _, _)
WindowTotal(rows, start_time, i) ==
    IF i = 0 THEN FloatOf(0)
    ELSE IF rows[i].timestamp >= start_time
    THEN FloatAdd(WindowTotal(rows, start_time, i - 1), rows[i].cost)
    ELSE WindowTotal(rows, start_time, i - 1)

\* the sum of the costs of the journal entries of the trailing window of `hours` hours
WindowCost(hours) ==
    WindowTotal(conn.work.cost_tracking, now - hours * Hour, Len(conn.work.cost_tracking))

\* the cost of the trailing hour is above the Store's target
OverBudget == ~FloatLeq(WindowCost(1), FloatOf(target_hourly_cost))

\* the identity of the event a Governor call was made with
CallIdentity(c) == TheValue(get_event_id(c.args[1]))

\* floor(a / b) for b >= 1
Floor(a, b) == CHOOSE q \in 0..a : q * b <= a /\ a < (q + 1) * b

---------------------------------------------------------------------------
(* The Store: SpecStore *)

\* C8: save_event is idempotent per identity: there is at most one row per identity,
\* and a save_event for an identity that has a row leaves every row as it was (type,
\* action, created_at, processed_at, cost and tokens keep their values)
C8_SaveEventIdempotent ==
    [][/\ \A id \in EventIds : Cardinality(EventRows(conn'.work, id)) <= 1
       /\ (call'.op = "save_event" /\ EventRows(conn.work, call'.args[1]) # {})
            => conn'.work = conn.work]_vars

\* a save_event, with another type, for an identity saved earlier and processed since
C8_Witness ==
    /\ call.op = "save_event"
    /\ ~call.raised
    /\ \E r \in conn.work.events :
            /\ r.id = call.args[1]
            /\ r.type # call.args[2]
            /\ r.created_at < now
            /\ r.processed_at # NULL

\* C9: mark_event_processed is atomic: an event row that is durably stamped as
\* processed has the durable journal entry of the same call (no failed call leaves a
\* row update that a later commit makes durable)
C9_MarkIsAtomic ==
    \A r \in conn.disk.events :
        r.processed_at # NULL =>
            \E i \in 1..Len(conn.disk.cost_tracking) :
                /\ conn.disk.cost_tracking[i].event_id = r.id
                /\ conn.disk.cost_tracking[i].timestamp = TheValue(r.processed_at)
                /\ Some(conn.disk.cost_tracking[i].cost) = r.cost
                /\ Some(conn.disk.cost_tracking[i].tokens) = r.tokens

\* C10, as claimed: get_hourly_cost(hours) returns the sum of the costs of the journal
\* entries of the trailing window, for every window length
C10_ReturnsWindowSum ==
    call.op = "get_hourly_cost" => call.ret = WindowCost(call.args[1])

\* C10, amended: get_hourly_cost(hours) returns, for hours >= 1, the sum of the costs of
\* the journal entries made at or after now - hours, divided by hours, and 0 for hours = 0;
\* so it returns 0 when the window holds no entry
C10_ReturnsWindowSumPerHour ==
    call.op = "get_hourly_cost" =>
        call.ret = IF call.args[1] = 0 THEN FloatOf(0)
                   ELSE FloatDiv(WindowCost(call.args[1]), call.args[1])

\* a two-hour window that holds two entries: the answer is half their sum
C10_Witness ==
    /\ call.op = "get_hourly_cost"
    /\ call.args[1] = 2
    /\ Len(conn.work.cost_tracking) = 2
    /\ call.ret # WindowCost(2)
    /\ call.ret # FloatOf(0)

---------------------------------------------------------------------------
(* Batching: SpecBatch *)

\* C5, as claimed: starting from an empty batch with max_batch_size = N, the k-th
\* consecutive add_to_batch returns false for k < N and true for k = N (the call that
\* finds k - 1 events in the batch is the k-th)
C5_BatchReadyOnNth ==
    [][(call'.op = "add_to_batch" /\ ~call'.raised
            /\ Len(lists[current_batch]) < max_batch_size)
        => call'.ret = (Len(lists[current_batch]) + 1 = max_batch_size)]_vars

\* C6: get_batch returns exactly the events add_to_batch accepted since the previous
\* get_batch, in the order accepted, and leaves the batch empty, in a list of its own;
\* a later add_to_batch does not change the list returned
C6_GetBatchHandsOver ==
    [][/\ call'.op = "get_batch" =>
            /\ lists'[call'.ret] = accepted
            /\ lists'[current_batch'] = <<>>
            /\ call'.ret # current_batch'
       /\ (call'.op = "add_to_batch" /\ returned_batch # NoRef) =>
            /\ returned_batch' = returned_batch
            /\ lists'[returned_batch] = lists[returned_batch]]_vars

\* a batch of two events was handed out, and an event was added to the next batch
C6_Witness ==
    /\ call.op = "add_to_batch"
    /\ returned_batch # NoRef
    /\ lists[returned_batch] = <<E2, E1>>
    /\ lists[current_batch] = <<E1e>>

\* C27, as claimed: every add_to_batch(e) call appends e to the batch and records the
\* identity of e as processed, the call that returns true included
C27_AddToBatchKeepsEvent ==
    [][(call'.op = "add_to_batch" /\ ~call'.raised) =>
        /\ lists'[current_batch'] = Append(lists[current_batch], call'.args[1])
        /\ CallIdentity(call') \in processed_events']_vars

---------------------------------------------------------------------------
(* Cost attribution: SpecTrack *)

\* the journal entries a track_processing(ids, cost, tokens) made at `at` is to write
SharedRows(ids, cost, tokens, at) ==
    [i \in 1..Len(ids) |->
        [event_id |-> ids[i], timestamp |-> at, cost |-> FloatDiv(cost, Len(ids)),
         tokens |-> Floor(tokens, Len(ids))]]

\* C7: track_processing(ids, cost, tokens) with n = len(ids) >= 1 records one
\* mark_event_processed per id, in the order given, each with cost / n and
\* floor(tokens / n), and lowers the token count by n only after all of them: a call
\* that raises has recorded a proper prefix and leaves the token count as it was
C7_TrackProcessingShares ==
    [][(call'.op = "track_processing" /\ Len(call'.args[1]) >= 1) =>
        LET ids == call'.args[1]
            rows == SharedRows(ids, call'.args[2], call'.args[3], now)
            old == conn.work.cost_tracking
            new == conn'.work.cost_tracking
        IN  IF call'.raised
            THEN /\ rate_limit_tokens' = rate_limit_tokens
                 /\ \E k \in 0..(Len(ids) - 1) : new = old \o SubSeq(rows, 1, k)
            ELSE /\ rate_limit_tokens' = rate_limit_tokens - Len(ids)
                 /\ new = old \o rows
                 /\ \A i \in 1..Len(ids) : \E r \in conn'.work.events :
                        /\ r.id = ids[i]
                        /\ r.processed_at = Some(now)
                        /\ r.cost = Some(rows[i].cost)
                        /\ r.tokens = Some(rows[i].tokens)]_vars

\* a call for two different events went through: 7 tokens make two shares of 3
C7_Witness ==
    /\ call.op = "track_processing"
    /\ ~call.raised
    /\ Len(call.args[1]) = 2
    /\ call.args[1][1] # call.args[1][2]
    /\ call.args[3] = 7
    /\ rate_limit_tokens = rate_limit_budget - 2

---------------------------------------------------------------------------
(* Deduplication and the budget gate: SpecGov *)

\* C1: once add_to_batch has admitted an event, every later should_process_event for
\* an event of the same identity returns false, whatever happened in between
C1_AdmittedIsRefused ==
    (call.op = "should_process_event" /\ ~call.raised /\ CallIdentity(call) \in admitted)
        => call.ret = FALSE

\* an edited event of an admitted identity is refused after its batch was taken, the
\* rate-limit window was reset, with tokens left and the cost within budget
C1_Witness ==
    /\ call.op = "should_process_event"
    /\ call.args[1] = E1e
    /\ call.ret = FALSE
    /\ I1 \in admitted
    /\ lists[current_batch] = <<>>
    /\ returned_batch # NoRef
    /\ rate_limit_last_reset > 0
    /\ rate_limit_tokens > 0
    /\ ~OverBudget

\* C3: should_process_event for an identity not yet admitted returns false, without
\* raising, when the cost of the trailing hour is above the target, and is not denied
\* by the budget gate when it is at or below it (the answer is then the rate limiter's);
\* is_cost_efficient is true exactly when that cost is at most the target
C3_BudgetGate ==
    /\ (call.op = "should_process_event" /\ get_event_id(call.args[1]) # NULL
            /\ CallIdentity(call) \notin admitted) =>
            /\ ~call.raised
            /\ call.ret = IF OverBudget THEN FALSE ELSE rate_limit_tokens > 0
    /\ call.op = "is_cost_efficient" => call.ret = ~OverBudget

\* a new identity is refused for the cost alone: tokens are left
C3_Witness ==
    /\ call.op = "should_process_event"
    /\ CallIdentity(call) \notin admitted
    /\ OverBudget
    /\ rate_limit_tokens > 0
    /\ call.ret = FALSE

---------------------------------------------------------------------------
(* Rate limiting: SpecRate *)

\* C4: while no token is left and the window has not elapsed, should_process_event
\* returns false, for a new identity too; the first should_process_event that gets to
\* the rate limiter (identity not admitted, cost within budget) once the clock has
\* reached last_reset + window sets the token count to the full budget and last_reset
\* to the current time, and admits the request; the window is reset by no other step
C4_RateLimit ==
    [][/\ (call'.op = "should_process_event" /\ ~call'.raised) =>
            IF now >= rate_limit_last_reset + Hour
            THEN (CallIdentity(call') \notin admitted /\ is_cost_efficient(conn, now)) =>
                    /\ rate_limit_tokens' = rate_limit_budget
                    /\ rate_limit_last_reset' = now
                    /\ call'.ret = TRUE
            ELSE /\ rate_limit_tokens' = rate_limit_tokens
                 /\ rate_limit_last_reset' = rate_limit_last_reset
                 /\ rate_limit_tokens <= 0 => call'.ret = FALSE
       /\ (rate_limit_tokens' > rate_limit_tokens
            \/ rate_limit_last_reset' # rate_limit_last_reset)
            => call'.op = "should_process_event"]_vars

\* the whole budget was used up, and a check after the window admits a new identity
C4_Witness ==
    /\ call.op = "should_process_event"
    /\ call.args[1] = E2
    /\ call.ret = TRUE
    /\ Len(conn.work.cost_tracking) >= rate_limit_budget
    /\ rate_limit_tokens = rate_limit_budget
    /\ rate_limit_last_reset = now
    /\ now >= Hour

---------------------------------------------------------------------------
(* What changes the rate-limit state: SpecFrame *)

\* C29: the token count and last_reset change in two ways only: a track_processing
\* that returns lowers the count by the number of event ids it was given (one that
\* raises leaves it), and a should_process_event check at or after the window deadline
\* may reset the window, setting the count to the full budget and last_reset to now;
\* add_to_batch, get_batch, get_cached_state, cache_state and a should_process_event
\* before the deadline leave both as they were, and so does every other step
C29_TokenFrame ==
    [][/\ call'.op = "track_processing" =>
            /\ rate_limit_last_reset' = rate_limit_last_reset
            /\ rate_limit_tokens' =
                    IF call'.raised THEN rate_limit_tokens
                    ELSE rate_limit_tokens - Len(call'.args[1])
       /\ call'.op = "should_process_event" =>
            \/ UNCHANGED <<rate_limit_tokens, rate_limit_last_reset>>
            \/ /\ now >= rate_limit_last_reset + Hour
               /\ rate_limit_tokens' = rate_limit_budget
               /\ rate_limit_last_reset' = now
       /\ call'.op \notin {"track_processing", "should_process_event"} =>
            UNCHANGED <<rate_limit_tokens, rate_limit_last_reset>>]_vars

\* after a reset of the window, a track_processing of two event ids has lowered the
\* full budget by two
C29_Witness ==
    /\ call.op = "track_processing"
    /\ ~call.raised
    /\ Len(call.args[1]) = 2
    /\ rate_limit_last_reset > 0
    /\ rate_limit_tokens = rate_limit_budget - 2

---------------------------------------------------------------------------
(* The rate cap: SpecCap *)

\* C28, as claimed: in one rate-limit window (here the first, which starts with the
\* construction of the Governor: no reset has happened) the number of distinct events
\* that should_process_event let through and add_to_batch then batched does not exceed
\* the token budget
C28_RateCap ==
    rate_limit_last_reset = 0 => Cardinality(admitted) <= rate_limit_budget

---------------------------------------------------------------------------
(* The webhook listener: SpecWeb *)

\* how often the agent was run for an event
RunsOf(event) == Cardinality({i \in 1..Len(agent_runs) : agent_runs[i] = event})

\* C2, as claimed: when the same correctly signed issues/opened request is delivered
\* twice and both deliveries are answered 200, the agent was run exactly once for it
C2_ReplayRunsAgentOnce ==
    \A i, j \in 1..Len(responses) :
        (/\ i < j
         /\ responses[i].request = Request(IssueOpened, Signed(WebhookSecret, IssueOpened), "issues")
         /\ responses[j].request = responses[i].request
         /\ responses[i].status = 200
         /\ responses[j].status = 200)
        => RunsOf(WithEventName(TheValue(IssueOpened.json).value, "issues")) = 1

---------------------------------------------------------------------------
(* Retention cleanup: SpecClean *)

\* the event rows a cleanup_old_events(days) called now is to remove
OldEvents(days) == {r \in conn.work.events : r.created_at < now - days * Day}

\* C11, as claimed: cleanup_old_events(days), on a connection with no transaction open and
\* with no storage failure, removes exactly the event rows created before the cutoff, with
\* every journal entry and cached-state row of those events (and no other row), and
\* returns the number of event rows removed
C11_CleanupRemovesOldEvents ==
    [][(call'.op = "cleanup_old_events" /\ call'.args[2] = "none" /\ ~conn.in_transaction) =>
        LET old == OldEvents(call'.args[1])
            oldIds == {r.id : r \in old}
        IN  /\ ~call'.raised
            /\ conn'.work.events = conn.work.events \ old
            /\ conn'.work.cost_tracking =
                    SelectSeq(conn.work.cost_tracking, LAMBDA j : j.event_id \notin oldIds)
            /\ conn'.work.model_states =
                    {m \in conn.work.model_states : m.event_id \notin oldIds}
            /\ call'.ret = Some(Cardinality(old))]_vars

\* C12: cleanup_old_events is all-or-nothing: a call that raises, whichever step failed,
\* leaves the Store exactly as it was before the call
C12_CleanupAllOrNothing ==
    [][(call'.op = "cleanup_old_events" /\ call'.raised) => conn' = conn]_vars

\* the commit of a cleanup failed after the cached state and the row of an old event
\* were deleted, and both are still there
C12_Witness ==
    /\ call.op = "cleanup_old_events"
    /\ call.raised
    /\ call.args = <<0, "commit">>
    /\ \E r \in conn.work.events :
            /\ r.created_at < now
            /\ StateRows(conn.work, r.id) # {}
            /\ \A i \in 1..Len(conn.work.cost_tracking) :
                    conn.work.cost_tracking[i].event_id # r.id

---------------------------------------------------------------------------
(* Authentication and status codes: SpecWeb *)

\* the header GitHub sends for a body: the scheme prefix and the HMAC-SHA256 of the body
RightSignature(request) ==
    <<SchemeTag, HexPart(WebhookSecret, request.payload.bytes, 1),
      HexPart(WebhookSecret, request.payload.bytes, 2)>>

\* C13, as claimed: a POST whose signature header is missing, lacks the sha256= prefix or
\* does not match the HMAC-SHA256 of the raw body under the shared secret is answered 401,
\* and neither the Router nor the agent is called for it, whatever the body and the type
C13_BadSignatureIs401 ==
    [][(call'.op = "do_POST" /\ call'.args[1].content_length
            /\ call'.args[1].signature # RightSignature(call'.args[1])) =>
        /\ call'.ret = 401
        /\ agent_runs' = agent_runs
        /\ current_event' = current_event]_vars

\* the pairs of type and action the Router supports
SupportedPairs ==
    {<<"issues", "opened">>, <<"issues", "edited">>,
     <<"pull_request", "opened">>, <<"pull_request", "synchronize">>,
     <<"discussion", "created">>, <<"discussion", "edited">>}

\* the status claimed for a correctly signed request whose body could be read
ClaimedStatus(request, agent_raises) ==
    LET json == request.payload.json
        event == TheValue(json).value
        subject == CASE request.event_type = "issues" -> event.issue
                     [] request.event_type = "pull_request" -> event.pull_request
                     [] OTHER -> event.discussion
    IN  IF json = NULL \/ request.event_type = "" THEN 400
        ELSE IF TheValue(json).kind # "object" THEN 500
        ELSE IF event.action = NULL
                \/ <<request.event_type, TheValue(event.action)>> \notin SupportedPairs THEN 422
        ELSE IF subject = NULL \/ TheValue(subject).number = NULL
                \/ TheValue(subject).title = NULL \/ agent_raises THEN 500
        ELSE 200

---------------------------------------------------------------------------
(* The Router: SpecRouter *)

\* the types of the supported table
SupportedTypes == {p[1] : p \in SupportedPairs}

\* C15: _validate_event rejects an event whose type is missing or not in the supported
\* table with the failure "unsupported event type", and an event of a supported type whose
\* action is missing or not allowed for the type with the failure "unsupported action"
\* (the type is checked first, and the two failures differ); it accepts exactly the pairs
\* issues:{opened, edited}, pull_request:{opened, synchronize}, discussion:{created, edited}
C15_Validation ==
    call.op = "validate_event" =>
        LET type == call.args[1].event_name
            action == call.args[1].action
        IN  /\ call.ret =
                IF type = NULL \/ TheValue(type) \notin SupportedTypes
                THEN "Unsupported event type"
                ELSE IF action = NULL \/ <<TheValue(type), TheValue(action)>> \notin SupportedPairs
                THEN "Unsupported action"
                ELSE "None"
            /\ call.raised = (call.ret # "None")

\* an event of an unsupported type, with an action that no type allows, was rejected
C15_Witness ==
    /\ call.op = "validate_event"
    /\ call.args[1].event_name = Some("push")
    /\ call.args[1].action = Some("closed")
    /\ call.raised
    /\ call.ret = "Unsupported event type"

\* C16, as claimed: handle_event runs the agent exactly once, with the event recorded as the
\* hook's current event, for every event whose type and action pass validation, also when
\* the run raises, and does not run it for an event that fails validation
C16_OneRunPerValidEvent ==
    [][call'.op = "handle_event" =>
        IF call'.args[1].event_name # NULL /\ call'.args[1].action # NULL
            /\ <<TheValue(call'.args[1].event_name), TheValue(call'.args[1].action)>>
                    \in SupportedPairs
        THEN /\ agent_runs' = Append(agent_runs, call'.args[1])
             /\ current_event' = Some(call'.args[1])
        ELSE /\ agent_runs' = agent_runs
             /\ current_event' = current_event]_vars

\* C19: after a should_process_event call returned true for an identity, the next
\* should_process_event call with that identity returns false (the consequence, for two
\* calls in a row, of "true exactly once per identity")
C19_TrueOncePerIdentity ==
    [][(/\ call.op = "should_process_event" /\ ~call.raised /\ call.ret = TRUE
        /\ call'.op = "should_process_event" /\ ~call'.raised
        /\ CallIdentity(call') = CallIdentity(call))
            => call'.ret = FALSE]_vars

---------------------------------------------------------------------------
(* Instances on one Store: SpecFleet *)

\* the Store records the identity as processed
RecordedProcessed(id) ==
    \E r \in conn.work.events : r.id = id /\ r.processed_at # NULL

\* C20: the first should_process_event call of a new instance, on a Store that records
\* the identity of the event as processed, returns false
C20_DedupAcrossInstances ==
    [][(/\ call.op = "init"
        /\ processed_events = {}
        /\ call'.op = "should_process_event" /\ ~call'.raised
        /\ RecordedProcessed(CallIdentity(call')))
            => call'.ret = FALSE]_vars

---------------------------------------------------------------------------
(* The cache of model states: SpecCache *)

\* the time to live of the claims: 3600 seconds
TTL == Hour

\* the state s handed to cache_state at the time t, as it is after the call: the
\* call has set its "_updated_at" to t
StateCachedAt(state, t) ==
    [k \in StateKeys |-> IF k = "_updated_at" THEN Some(<<"str", t>>) ELSE state[k]]

\* C17: get_cached_state(id) returns absent when the Store has no entry for id and when
\* the entry was last updated more than the TTL ago, and returns the stored state when the
\* entry is within the TTL; an expired entry is absent to the reader though its row exists
C17_CacheRead ==
    call.op = "get_cached_state" =>
        LET id == call.args[1]
            rows == StateRows(conn.work, id)
        IN  /\ ~call.raised
            /\ call.ret =
                IF rows = {} \/ \A r \in rows : now - r.updated_at > TTL
                THEN NULL
                ELSE Some(StateCachedAt(TheValue(cached[id]).state, TheValue(cached[id]).at))

\* an entry is read as absent while its row is in the Store
C17_Witness ==
    /\ call.op = "get_cached_state"
    /\ ~call.raised
    /\ call.ret = NULL
    /\ StateRows(conn.work, call.args[1]) # {}

\* C18: a cache_state(id, s) that returns has stored s for id, stamped with the current
\* time, in place of any earlier entry; a get_cached_state(id) no later than the TTL after
\* the latest such cache_state returns the state of that call
C18_CacheWrite ==
    [][/\ (call'.op = "cache_state" /\ ~call'.raised) =>
            /\ Cardinality(StateRows(conn'.work, call'.args[1])) = 1
            /\ \A r \in StateRows(conn'.work, call'.args[1]) : r.updated_at = now
            /\ get_model_state(conn', call'.args[1]) =
                    Some(StateCachedAt(call'.args[2], now))
       /\ (call'.op = "get_cached_state" /\ cached[call'.args[1]] # NULL
                /\ now - TheValue(cached[call'.args[1]]).at <= TTL) =>
            /\ ~call'.raised
            /\ call'.ret = Some(StateCachedAt(TheValue(cached[call'.args[1]]).state,
                                              TheValue(cached[call'.args[1]]).at))]_vars

\* a state cached at a time when every entry of the first tick has expired is read back
C18_Witness ==
    /\ call.op = "get_cached_state"
    /\ call.args[1] = I1
    /\ call.ret # NULL
    /\ TheValue(call.ret)["key"] = Some(<<"str", "b">>)
    /\ TheValue(cached[I1]).at > TTL

---------------------------------------------------------------------------
(* Threads on one Store: SpecThreads *)

\* C21: when the worker threads have run save_event and then mark_event_processed on
\* their events through one Store, no call has raised and every worker's event has
\* exactly one row, marked processed, with exactly one journal entry
C21_ThreadSafety ==
    /\ (call.op \in {"save_event", "mark_event_processed"}) => ~call.raised
    /\ (\A w \in Workers : WorkerDone(w)) =>
            \A w \in Workers :
                /\ Cardinality(EventRows(conn.disk, WorkerEvent(w))) = 1
                /\ \A r \in EventRows(conn.disk, WorkerEvent(w)) : r.processed_at # NULL
                /\ Cardinality({i \in 1..Len(conn.disk.cost_tracking) :
                        conn.disk.cost_tracking[i].event_id = WorkerEvent(w)}) = 1

---------------------------------------------------------------------------
(* Request handlers on one Governor: SpecHandlers *)

\* the events that are in a batch: in the current one, or in the one get_batch handed out
Batched ==
    (IF returned_batch = NoRef \/ returned_batch = current_batch
     THEN <<>> ELSE lists[returned_batch]) \o lists[current_batch]

---------------------------------------------------------------------------
(* The Action Invoker: SpecAction *)

\* the event file holds a JSON object whose type and action the Router supports
SupportedFile(file) ==
    /\ file # NULL
    /\ TheValue(file).json # NULL
    /\ TheValue(TheValue(file).json).kind = "object"
    /\ LET event == TheValue(TheValue(file).json).value
       IN  /\ event.event_name # NULL /\ event.action # NULL
           /\ <<TheValue(event.event_name), TheValue(event.action)>> \in SupportedPairs

\* C23, as claimed: the Action Invoker's handle_event raises and does not run the agent
\* when the file is missing, is not valid JSON, or holds an event of an unsupported type
\* or action; for a file with a supported event it runs the agent exactly once
C23_OneShotInvoker ==
    [][call'.op = "action_handle_event" =>
        IF SupportedFile(call'.args[1])
        THEN agent_runs' = Append(agent_runs, TheValue(TheValue(call'.args[1]).json).value)
        ELSE call'.raised /\ agent_runs' = agent_runs]_vars

---------------------------------------------------------------------------
(* The model states of the Store: SpecModelState *)

\* C24: save_model_state(id, s) succeeds for any event id, and a get_model_state(id)
\* that follows it returns s (the s of the latest save); get_model_state for an id
\* with no state saved returns absent
C24_ModelStateRoundTrip ==
    [][/\ (call'.op = "save_model_state") => ~call'.raised
       /\ (call.op = "save_model_state" /\ call'.op = "get_model_state"
                /\ call'.args[1] = call.args[1])
            => call'.ret = Some(call.args[2])
       /\ (call'.op = "get_model_state" /\ StateRows(conn.work, call'.args[1]) = {})
            => call'.ret = NULL]_vars

---------------------------------------------------------------------------
(* Statistics of the Store: SpecStats *)

\* the events of a type that belong to the trailing window of `hours` hours: those
\* created in it
EventsOfWindow(type, hours) ==
    {r \in conn.work.events : r.type = type /\ r.created_at >= now - hours * Hour}

\* C25, as claimed: get_event_stats(type?, hours) counts only events of the trailing
\* window (an event created two days ago and marked processed now is not in the stats of
\* the last hour), and with a type given it returns the group of that type only
C25_StatsOfWindow ==
    call.op = "get_event_stats" =>
        \A g \in call.ret :
            /\ g.count <= Cardinality(EventsOfWindow(g.type, call.args[2]))
            /\ call.args[1] # NULL => Some(g.type) = call.args[1]

---------------------------------------------------------------------------
(* The listener's lifecycle: SpecServer *)

\* C26: start from stopped (the port being free) makes the server running; start while
\* running raises RuntimeError and leaves the running server as it is; stop while
\* running first stops accepting, then closes the listening socket, and leaves the
\* Router stopped (server is None); stop while stopped changes nothing
C26_ListenerLifecycle ==
    [][/\ (call'.op = "start" /\ server = NULL /\ call'.args[1]) =>
            /\ ~call'.raised
            /\ server' = Some([socket |-> "listening", serving |-> TRUE])
       /\ (call'.op = "start" /\ server # NULL) =>
            /\ call'.ret = "RuntimeError"
            /\ server' = server
       /\ (call'.op = "stop" /\ server # NULL) =>
            /\ call'.ret = <<[socket |-> "listening", serving |-> FALSE],
                             [socket |-> "closed", serving |-> FALSE]>>
            /\ server' = NULL
       /\ (call'.op = "stop" /\ server = NULL) =>
            /\ ~call'.raised
            /\ server' = NULL]_vars

\* the listener is running after a start that followed requests: start was refused with
\* RuntimeError while it ran
C26_Witness ==
    /\ call.op = "start"
    /\ call.ret = "RuntimeError"
    /\ server # NULL
    /\ Len(responses) > 0

---------------------------------------------------------------------------
(* Signatures: SpecSign *)

\* C30, as claimed: _verify_signature(payload, header) returns true exactly when the
\* header is the scheme tag sha256= followed by the hex HMAC-SHA256 of the payload under
\* the secret; no header of another shape (such as one with the tag more than once)
\* verifies
C30_VerifiesExactlyTheSignature ==
    call.op = "verify_signature" =>
        ((call.ret = "True") <=>
            (call.args[2] = <<SchemeTag, HexPart(WebhookSecret, call.args[1], 1),
                              HexPart(WebhookSecret, call.args[1], 2)>>))

---------------------------------------------------------------------------
(* The Webhook Receiver answers every POST: SpecWeb *)

\* the statuses the receiver answers with
StatusCodes == {200, 400, 401, 422, 500}

\* C31: every POST the receiver handles is answered with one status code, and the
\* code is one of 200, 400, 401, 422, 500: no request, one without Content-Length,
\* one with a signed body that is JSON but no object, or one whose handler raises
\* included, ends without a response.
C31_EveryPostAnswered ==
    call.op = "do_POST" => call.ret \in StatusCodes /\ ~call.raised

---------------------------------------------------------------------------
(* The batch bound: SpecBatch *)

\* C33: in every reachable state, after any sequence of add_to_batch and get_batch
\* calls, the batch holds at most max_batch_size events; so does a batch handed out
C33_BatchBound ==
    /\ Len(lists[current_batch]) <= max_batch_size
    /\ returned_batch # NoRef => Len(lists[returned_batch]) <= max_batch_size

\* an add_to_batch found the batch full, with max_batch_size events, and returned true
C33_Witness ==
    /\ call.op = "add_to_batch"
    /\ ~call.raised
    /\ call.ret = TRUE
    /\ max_batch_size = MaxBatch
    /\ Len(lists[current_batch]) = max_batch_size

---------------------------------------------------------------------------
(* The lifecycle of an event row: SpecClean *)

\* C34, as claimed: processed_at, cost and tokens of an event row are set once: after
\* mark_event_processed has set them no later operation, another mark_event_processed
\* or a repeated save_event included, changes them; and an event row is removed by
\* cleanup_old_events only
C34_ProcessedOnce ==
    [][call'.op # "cleanup_old_events" =>
        \A r \in conn.work.events :
            /\ EventRows(conn'.work, r.id) # {}
            /\ r.processed_at # NULL => r \in conn'.work.events]_vars

---------------------------------------------------------------------------
(* The range of the token count: SpecRate *)

\* C35, as claimed: in every reachable state the rate-limit token count is within
\* 0..100: it never exceeds the full budget and never drops below zero, whatever
\* the sizes of the id lists track_processing is called with
C35_TokensInRange == rate_limit_tokens \in 0..rate_limit_budget

---------------------------------------------------------------------------
(* Referential integrity of the ledger: SpecClean *)

\* every journal row and every model-state row of a database refers to an event row
ReferencesHold(db) ==
    /\ \A i \in 1..Len(db.cost_tracking) :
            EventRows(db, db.cost_tracking[i].event_id) # {}
    /\ \A r \in db.model_states : EventRows(db, r.event_id) # {}

---------------------------------------------------------------------------
(* The lock of the Store: SpecLockFair *)

\* C37: the Store lock is held by at most one caller at a time and is released when
\* a Store operation ends, whether it returns or raises (a caller between two
\* operations, or done, does not hold it); no operation takes the lock while it
\* holds it, so no caller waits for itself, and every one of the concurrent Store
\* calls is completed in the end
C37_LockDiscipline ==
    /\ [](Cardinality(conn.lock) <= 1)
    /\ [](\A t \in Threads :
            (LockDone(t) \/ (call.op \notin {"init", "acquire"} /\ call.args = <<t>>))
                => t \notin conn.lock)
    /\ <>[](\A t \in Threads : LockDone(t))

\* every caller has finished its calls: calls returned (an event row was saved and
\* processed), the last call raised, and the lock is free
C37_Witness ==
    /\ \A t \in Threads : LockDone(t)
    /\ \E r \in conn.disk.events : r.processed_at # NULL
    /\ call.raised
    /\ conn.lock = {}

---------------------------------------------------------------------------
(* Reading any blob of the Store: SpecBlob *)

\* C38, as claimed: get_cached_state never fails: for every blob the Store can hold
\* for an id, one written with save_model_state directly (with no update timestamp)
\* and an empty state included, it returns that state or absent and raises no error
C38_GetCachedStateNeverFails ==
    call.op = "get_cached_state" =>
        /\ ~call.raised
        /\ call.ret \in {NULL, get_model_state(conn, call.args[1])}

---------------------------------------------------------------------------
(* The two cost targets: SpecTargets *)

\* C39: the budget gate of should_process_event depends on the target_hourly_cost of
\* the Store only: the answer is true exactly when the identity is not processed,
\* the hourly cost is at most the Store's target and a token is left, whatever
\* target the Governor was constructed with; the Governor's target sets the
\* efficiency figure of get_stats, and nothing else
C39_StoreTargetGates ==
    /\ (call.op = "should_process_event" /\ ~call.raised) =>
            (call.ret <=>
                /\ CallIdentity(call) \notin processed_events
                /\ FloatLeq(get_hourly_cost(conn, 1, now), FloatOf(target_hourly_cost))
                /\ rate_limit_tokens > 0)
    /\ (call.op = "get_stats" /\ get_hourly_cost(conn, 1, now)[1] > 0) =>
            call.ret.efficiency =
                Rat(governor_target_hourly_cost * get_hourly_cost(conn, 1, now)[2],
                    get_hourly_cost(conn, 1, now)[1])

\* a Governor with a target below its Store's admits an event while the hourly cost
\* lies between the two targets
C39_Witness ==
    /\ call.op = "should_process_event"
    /\ call.ret = TRUE
    /\ governor_target_hourly_cost < target_hourly_cost
    /\ FloatLeq(FloatOf(governor_target_hourly_cost + 1), get_hourly_cost(conn, 1, now))
    /\ FloatLeq(get_hourly_cost(conn, 1, now), FloatOf(target_hourly_cost))

---------------------------------------------------------------------------
(* Failures of track_processing: SpecTrack *)

\* C40: track_processing called with an empty id list raises before any write to the
\* Store and leaves the token count as it was; and when the write for some id fails
\* (the id has no event row, or the cost share is no number), the call raises and the
\* token count is not lowered
C40_TrackProcessingFailures ==
    [][call'.op = "track_processing" =>
        LET ids == call'.args[1]
        IN  /\ ids = <<>> =>
                    /\ call'.raised
                    /\ UNCHANGED <<storeVars, rate_limit_tokens>>
            /\ (ids # <<>> /\ (call'.args[2] = NaN
                                \/ \E i \in 1..Len(ids) : EventRows(conn.work, ids[i]) = {}))
                    => call'.raised
            /\ call'.raised => rate_limit_tokens' = rate_limit_tokens]_vars

\* the write for the second id of a list failed after the first was written: the
\* call raised and the token count is the full budget
C40_Witness ==
    /\ call.op = "track_processing"
    /\ call.raised
    /\ Len(call.args[1]) = 2
    /\ EventRows(conn.work, call.args[1][1]) # {}
    /\ EventRows(conn.work, call.args[1][2]) = {}
    /\ Len(conn.work.cost_tracking) = 1
    /\ rate_limit_tokens = rate_limit_budget

---------------------------------------------------------------------------
(* The dedup short-circuit: SpecDedup *)

\* C32: should_process_event called with an identity that is already in the set of
\* processed identities returns false without any access to the Store (it returns,
\* and does not raise, on a thread on which every Store access raises) and leaves
\* the token count and last_reset as they were, also after the window deadline;
\* and no should_process_event changes the set of processed identities or the batch.
C32_DedupShortCircuit ==
    [][call'.op = "should_process_event" =>
        /\ UNCHANGED <<processed_events, lists, current_batch, returned_batch>>
        /\ get_event_id(call'.args[1]) \subseteq processed_events =>
                /\ ~call'.raised
                /\ call'.ret = FALSE
                /\ UNCHANGED <<storeVars, rate_limit_tokens, rate_limit_last_reset>>]_vars

\* an identity that was batched is asked for again on a handler's thread, after the
\* window deadline and with tokens spent: the answer is false and the window is the
\* one that started at 0
C32_Witness ==
    /\ call.op = "should_process_event"
    /\ call.args[2] = "handler-1"
    /\ TheValue(get_event_id(call.args[1])) \in processed_events
    /\ ~call.raised
    /\ call.ret = FALSE
    /\ now - rate_limit_last_reset >= rate_limit_window
    /\ rate_limit_tokens < rate_limit_budget

=============================================================================
